---------------------------- MODULE Spec2Model ----------------------------
(***************************************************************************)
(* A model of the lock-free ring buffer of src/ring-buffer/ring_buffer.c.  *)
(*                                                                         *)
(* The arena is a byte array; a frame is a packed 24-byte header followed  *)
(* by the payload, padded to 8 bytes.  Every call of the API is a sequence *)
(* of steps of the calling thread, one step per access to shared memory    *)
(* (an atomic load, store, fetch_add or compare-exchange, or one memcpy),  *)
(* so that the interleavings of concurrent callers are those of the code.  *)
(*                                                                         *)
(* 32-bit words that may exceed 2^31 - 1 (checksums, corrupted header      *)
(* fields) are kept as their four little-endian bytes, the layout of the   *)
(* packed header in the arena on the little-endian hosts the code targets. *)
(***************************************************************************)
EXTENDS Integers, Sequences, FiniteSets, TLC

(***************************************************************************)
(* Program constants                                                       *)
(***************************************************************************)

\* ring_buffer.h:37
MESSAGE_ALIGNMENT == 8

\* A limit one byte short of 16 MiB
MaxMessageSize_OneShort == 16 * 1024 * 1024 - 1

\* ring_buffer.h:31, 16 * 1024 * 1024
RING_BUFFER_MAX_MESSAGE_SIZE == 16777216

\* ring_buffer.h: RING_BUFFER_DEFAULT_SIZE, 64 MiB
RING_BUFFER_DEFAULT_SIZE == 67108864

\* ring_buffer.h:34, 0x41524157 "ARAW"
ARROW_IPC_MAGIC == 1095909719

\* ring_buffer.c:22, 0x52424652 "RBFR"
RING_BUFFER_MAGIC == 1380075090

\* sizeof(arrow_ipc_header_t): the packed struct of ring_buffer.h:59-65,
\* 4 + 4 + 8 + 4 + 4 bytes
HeaderSize == 24

\* RING_BUFFER_BACKPRESSURE_THRESHOLD 0.8 (ring_buffer.h:28) as the ratio
\* ThresholdNum / ThresholdDen.  used / size is a dyadic rational, so it
\* never equals 4/5, and the double nearest 0.8 exceeds 4/5 by less than
\* 1/(5 * size): the comparison with the double decides as this ratio does.
ThresholdNum == 4

ThresholdDen == 5

\* ring_buffer_error_t, ring_buffer.h:42-51
RING_BUFFER_SUCCESS == "Success"

RING_BUFFER_ERROR_INVALID_PARAM == "InvalidParam"

RING_BUFFER_ERROR_FULL == "Full"

RING_BUFFER_ERROR_EMPTY == "Empty"

RING_BUFFER_ERROR_TOO_LARGE == "TooLarge"

RING_BUFFER_ERROR_CORRUPTED == "Corrupted"

RING_BUFFER_ERROR_BACKPRESSURE == "Backpressure"

(***************************************************************************)
(* Bit and byte arithmetic                                                 *)
(***************************************************************************)

RECURSIVE BitAnd(_, _)
\* a & b on naturals
BitAnd(a, b) ==
    IF a = 0 \/ b = 0 THEN 0
    ELSE (a % 2) * (b % 2) + 2 * BitAnd(a \div 2, b \div 2)

RECURSIVE BitOr(_, _)
\* a | b on naturals
BitOr(a, b) ==
    IF a = 0 THEN b
    ELSE IF b = 0 THEN a
    ELSE (IF a % 2 = 1 \/ b % 2 = 1 THEN 1 ELSE 0) + 2 * BitOr(a \div 2, b \div 2)

RECURSIVE BitXor(_, _)
\* a ^ b on naturals
BitXor(a, b) ==
    IF a = 0 THEN b
    ELSE IF b = 0 THEN a
    ELSE ((a + b) % 2) + 2 * BitXor(a \div 2, b \div 2)

\* a ^ b on bytes, tabulated
XorTable == [a \in 0..255 |-> [b \in 0..255 |-> BitXor(a, b)]]

XorByte(a, b) == XorTable[a][b]

\* The four little-endian bytes of a uint32_t below 2^31
U32Bytes(n) ==
    << n % 256, (n \div 256) % 256, (n \div 65536) % 256, (n \div 16777216) % 256 >>

\* The eight little-endian bytes of a uint64_t below 2^31
U64Bytes(n) == U32Bytes(n) \o << 0, 0, 0, 0 >>

\* w1 ^ w2 on 32-bit words
XorWord(w1, w2) ==
    << XorByte(w1[1], w2[1]), XorByte(w1[2], w2[2]), XorByte(w1[3], w2[3]),
       XorByte(w1[4], w2[4]) >>

\* w >> 1 on a 32-bit word
Shr1(w) ==
    << (w[1] \div 2) + (w[2] % 2) * 128, (w[2] \div 2) + (w[3] % 2) * 128,
       (w[3] \div 2) + (w[4] % 2) * 128, w[4] \div 2 >>

\* w >> 8 on a 32-bit word
Shr8(w) == << w[2], w[3], w[4], 0 >>

\* header.length > n for the length field held as bytes, n < 2^31
U32Greater(w, n) ==
    IF w[4] >= 128 THEN TRUE
    ELSE w[1] + 256 * w[2] + 65536 * w[3] + 16777216 * w[4] > n

\* The value of a 32-bit word below 2^31
U32Value(w) == w[1] + 256 * w[2] + 65536 * w[3] + 16777216 * w[4]

(***************************************************************************)
(* CRC-32                                                                  *)
(***************************************************************************)

\* ring_buffer.c:25, 0xEDB88320
CRC32_POLYNOMIAL == << 32, 131, 184, 237 >>

RECURSIVE Crc32TableEntry(_, _)
\* the inner loop of init_crc32_table: j more rounds on crc
Crc32TableEntry(crc, j) ==
    IF j = 0 THEN crc
    ELSE Crc32TableEntry(
             IF crc[1] % 2 = 1 THEN XorWord(Shr1(crc), CRC32_POLYNOMIAL)
             ELSE Shr1(crc),
             j - 1)

\* crc32_table as init_crc32_table fills it
crc32_table == [i \in 0..255 |-> Crc32TableEntry(<< i, 0, 0, 0 >>, 8)]

\* One round of the byte loop of ring_buffer_crc32:
\* crc32_table[(crc ^ byte) & 0xFF] ^ (crc >> 8)
Crc32Round(crc, byte) == XorWord(crc32_table[XorByte(crc[1], byte)], Shr8(crc))

RECURSIVE Crc32Loop(_, _, _)
\* the byte loop of ring_buffer_crc32 from index i on; the word is
\* evaluated at each round (its test is always true) to keep the
\* evaluation iterative
Crc32Loop(crc, bytes, i) ==
    IF i > Len(bytes) \/ crc[1] < 0 THEN crc
    ELSE Crc32Loop(Crc32Round(crc, bytes[i]), bytes, i + 1)

ring_buffer_crc32(bytes) ==
    XorWord(Crc32Loop(<< 255, 255, 255, 255 >>, bytes, 1), << 255, 255, 255, 255 >>)

(***************************************************************************)
(* Sizes                                                                   *)
(***************************************************************************)

\* (size + MESSAGE_ALIGNMENT - 1) & ~(MESSAGE_ALIGNMENT - 1): the and with
\* the complement of 7 clears the three low bits
align_size(size) ==
    (size + MESSAGE_ALIGNMENT - 1)
        - BitAnd(size + MESSAGE_ALIGNMENT - 1, MESSAGE_ALIGNMENT - 1)

total_message_size(data_size) == align_size(HeaderSize + data_size)

\* ring_buffer_next_power_of_2 on values far below 2^64: the decrement,
\* the six or-shift rounds and the increment
ring_buffer_next_power_of_2(n) ==
    IF n = 0 THEN 1
    ELSE LET n0 == n - 1
             n1 == BitOr(n0, n0 \div 2)
             n2 == BitOr(n1, n1 \div 4)
             n3 == BitOr(n2, n2 \div 16)
             n4 == BitOr(n3, n3 \div 256)
             n5 == BitOr(n4, n4 \div 65536)
             \* n >> 32 is 0 for the sizes of the model
             n6 == BitOr(n5, 0)
         IN  n6 + 1

\* A size_t held as the set of the positions of its one bits, exact at the
\* 64 bits of the type
U64Bits(n) == { b \in 0..30 : (n \div (2^b)) % 2 = 1 }

\* n-- on a non-zero size_t: the lowest one bit is cleared and the bits
\* below it are set
U64Dec(n) ==
    LET low == CHOOSE b \in n : \A c \in n : b <= c
    IN  (n \ {low}) \cup (0..(low - 1))

\* n >> s
U64Shr(n, s) == { b - s : b \in { c \in n : c >= s } }

\* n + 1 in a size_t: the lowest zero bit is set and the bits below it
\* are cleared; all ones wrap to 0
U64Inc(n) ==
    IF (0..63) \subseteq n THEN {}
    ELSE LET zero == CHOOSE b \in (0..63) \ n : \A c \in (0..63) \ n : b <= c
         IN  (n \ (0..(zero - 1))) \cup {zero}

\* A variant of the rounding without the shift by 32, as for a 32-bit size
next_power_of_2_u64_NoShift32(n) ==
    IF n = {} THEN {0}
    ELSE LET n0 == U64Dec(n)
             n1 == n0 \cup U64Shr(n0, 1)
             n2 == n1 \cup U64Shr(n1, 2)
             n3 == n2 \cup U64Shr(n2, 4)
             n4 == n3 \cup U64Shr(n3, 8)
             n5 == n4 \cup U64Shr(n4, 16)
         IN  U64Inc(n5)

\* ring_buffer_next_power_of_2 on a size_t of 64 bits, the shift by 32 and
\* the wrap of n + 1 included
next_power_of_2_u64(n) ==
    IF n = {} THEN {0}
    ELSE LET n0 == U64Dec(n)
             n1 == n0 \cup U64Shr(n0, 1)
             n2 == n1 \cup U64Shr(n1, 2)
             n3 == n2 \cup U64Shr(n2, 4)
             n4 == n3 \cup U64Shr(n3, 8)
             n5 == n4 \cup U64Shr(n4, 16)
             n6 == n5 \cup U64Shr(n5, 32)
         IN  U64Inc(n6)

(***************************************************************************)
(* Bounds of the model                                                     *)
(***************************************************************************)

\* Threads that may call into the arena
Threads == {1, 2, 3}

\* Values ring_buffer_timestamp() returns
Timestamps == {1000}

\* generate_test_data of the tests: byte i of a payload is pattern + i
Payload(pattern, len) == [i \in 1..len |-> (pattern + i - 1) % 256]

(***************************************************************************)
(* State                                                                   *)
(***************************************************************************)

VARIABLES
    \* ring_buffer_t: the arena and its descriptor; rb_buffer is the value
    \* of the pointer field, rb_freed whether free(rb) has run
    buffer, rb_size, rb_magic, rb_buffer, rb_freed,
    \* the three cursors
    write_pos, read_pos, commit_pos,
    \* the flags
    is_full, backpressure,
    \* the seven counters
    stats,
    \* each thread's position in its call, its locals, the value its last
    \* call returned and its ring_buffer_message_t
    pc, loc, ret, msg,
    \* history: the reservations in the order of their compare-exchange,
    \* the frames successful reads returned, the completed calls (kept when
    \* logging), the calls each thread made
    reserved, delivered, log, logging, ncalls

arena == << buffer, rb_size, rb_magic, rb_buffer, rb_freed >>

cursors == << write_pos, read_pos, commit_pos >>

flags == << is_full, backpressure >>

history == << reserved, delivered >>

vars == << buffer, rb_size, rb_magic, rb_buffer, rb_freed, write_pos, read_pos,
           commit_pos, is_full, backpressure, stats, pc, loc, ret, msg, reserved,
           delivered, log, logging, ncalls >>

\* The counters of ring_buffer_stats_t, all zero
ZeroStats ==
    [ messages_written |-> 0, messages_read |-> 0, bytes_written |-> 0,
      bytes_read |-> 0, write_errors |-> 0, read_errors |-> 0,
      backpressure_events |-> 0 ]

\* What a caller can observe of the descriptor: taken at the call and at
\* the return of a logged call
Snapshot ==
    [ taken |-> TRUE, write_pos |-> write_pos, read_pos |-> read_pos,
      commit_pos |-> commit_pos, is_full |-> is_full,
      backpressure |-> backpressure, stats |-> stats, buffer |-> buffer,
      size |-> rb_size, magic |-> rb_magic, ptr |-> rb_buffer,
      freed |-> rb_freed ]

NoSnapshot == [ taken |-> FALSE ]

\* The locals of a thread that is in no call
IdleLoc ==
    [ op |-> "none", arg |-> << >>, data |-> << >>, size |-> 0, write_pos |-> 0,
      read_pos |-> 0, tmp_pos |-> 0, msg_size |-> 0, new_write_pos |-> 0,
      header |-> << >>, resv |-> 0, i |-> 0, out |-> << >>, pre |-> NoSnapshot ]

\* A ring_buffer_message_t the caller has not filled
NoMessage == [ header |-> << >>, data |-> 0, data_size |-> 0 ]

\* The descriptor ring_buffer_create fills in for the rounded capacity n:
\* the magic, and the cursors, flags and counters at 0
calloc_descriptor(n) ==
    [ size |-> n, magic |-> RING_BUFFER_MAGIC, write_pos |-> 0,
      read_pos |-> 0, commit_pos |-> 0, is_full |-> FALSE,
      backpressure |-> FALSE, stats |-> ZeroStats ]

\* ring_buffer_create: the capacity rounded from the request (the default
\* for 0), the descriptor and the zeroed region it points to
ring_buffer_create(size) ==
    LET d == calloc_descriptor(
                 ring_buffer_next_power_of_2(
                     IF size = 0 THEN RING_BUFFER_DEFAULT_SIZE ELSE size))
    IN  [ buffer |-> [k \in 0..(d.size - 1) |-> 0], ptr |-> "mapped",
          size |-> d.size, magic |-> d.magic, write_pos |-> d.write_pos, read_pos |-> d.read_pos,
          commit_pos |-> d.commit_pos, is_full |-> d.is_full,
          backpressure |-> d.backpressure, stats |-> d.stats ]

\* The state after construction with one of the requested sizes
InitWith(sizes, keeplog) ==
    /\ \E s \in sizes :
         LET rb == ring_buffer_create(s)
         IN  /\ buffer = rb.buffer
             /\ rb_size = rb.size
             /\ rb_magic = rb.magic
             /\ rb_buffer = rb.ptr
             /\ rb_freed = FALSE
             /\ write_pos = rb.write_pos
             /\ read_pos = rb.read_pos
             /\ commit_pos = rb.commit_pos
             /\ is_full = rb.is_full
             /\ backpressure = rb.backpressure
             /\ stats = rb.stats
    /\ pc = [t \in Threads |-> "idle"]
    /\ loc = [t \in Threads |-> IdleLoc]
    /\ ret = [t \in Threads |-> "none"]
    /\ msg = [t \in Threads |-> NoMessage]
    /\ reserved = << >>
    /\ delivered = << >>
    /\ log = << >>
    /\ logging = keeplog
    /\ ncalls = [t \in Threads |-> 0]

(***************************************************************************)
(* Inspection: the functions of the two cursor loads                       *)
(***************************************************************************)

\* used of ring_buffer_utilization (ring_buffer.c:207-212)
UsedBytes(w, r, size) == IF w >= r THEN w - r ELSE size - (r - w)

\* A free count that forgets the slot kept empty
AvailableWrite_NoSlot(w, r, size) ==
    IF w >= r THEN size - (w - r) ELSE r - w

\* ring_buffer_available_write on the two loaded cursors
AvailableWrite(w, r, size) ==
    IF w >= r THEN size - (w - r) - 1 ELSE r - w - 1

\* ring_buffer_available_read on the two loaded cursors
AvailableRead(c, r, size) == IF c >= r THEN c - r ELSE size - (r - c)

\* A threshold of 0.9 in place of the 0.8 that ring_buffer_create stores
AtThreshold_NinetyPercent(w, r, size) == 10 * UsedBytes(w, r, size) >= 9 * size

\* ring_buffer_utilization(rb) >= rb->backpressure_threshold
AtThreshold(w, r, size) ==
    ThresholdDen * UsedBytes(w, r, size) >= ThresholdNum * size

\* A validation that accepts a cursor equal to the capacity
ring_buffer_validate_CursorAtSize ==
    /\ rb_magic = RING_BUFFER_MAGIC
    /\ ~(rb_buffer = "NULL" \/ rb_buffer = "MAP_FAILED")
    /\ ~(rb_size = 0 \/ BitAnd(rb_size, rb_size - 1) # 0)
    /\ ~(write_pos > rb_size \/ read_pos > rb_size \/ commit_pos > rb_size)

\* ring_buffer_validate on a descriptor that is not null: the magic, the
\* backing pointer, the capacity and the three cursors
ring_buffer_validate ==
    /\ rb_magic = RING_BUFFER_MAGIC
    /\ ~(rb_buffer = "NULL" \/ rb_buffer = "MAP_FAILED")
    /\ ~(rb_size = 0 \/ BitAnd(rb_size, rb_size - 1) # 0)
    /\ ~(write_pos >= rb_size \/ read_pos >= rb_size \/ commit_pos >= rb_size)

(***************************************************************************)
(* Calls and returns                                                       *)
(***************************************************************************)

\* A thread enters the API function op with the arguments arg
Enter(t, op, arg, next) ==
    /\ pc[t] = "idle"
    /\ pc' = [pc EXCEPT ![t] = next]
    /\ loc' = [loc EXCEPT ![t] =
                  [IdleLoc EXCEPT !.op = op, !.arg = arg,
                                  !.pre = IF logging THEN Snapshot ELSE NoSnapshot]]
    /\ ncalls' = [ncalls EXCEPT ![t] = @ + 1]

\* The record of a completed call
LogEntry(t, op, arg, pre, code, out, post) ==
    [ tid |-> t, op |-> op, arg |-> arg, pre |-> pre, ret |-> code, out |-> out,
      post |-> post ]

\* The call returns code (and out, for the calls with a result) in the
\* step that enters it
ReturnAtOnce(t, op, arg, code, out) ==
    /\ pc[t] = "idle"
    /\ pc' = pc
    /\ loc' = loc
    /\ ret' = [ret EXCEPT ![t] = code]
    /\ ncalls' = [ncalls EXCEPT ![t] = @ + 1]
    /\ log' = IF logging
              THEN Append(log, LogEntry(t, op, arg, Snapshot, code, out, Snapshot'))
              ELSE log

\* The call in flight returns code; the conjunct comes last in its step,
\* after the new values of the cursors and counters
Return(t, code, out) ==
    /\ pc' = [pc EXCEPT ![t] = "idle"]
    /\ loc' = [loc EXCEPT ![t] = IdleLoc]
    /\ ret' = [ret EXCEPT ![t] = code]
    /\ ncalls' = ncalls
    /\ log' = IF logging
              THEN Append(log, LogEntry(t, loc[t].op, loc[t].arg, loc[t].pre, code,
                                        out, Snapshot'))
              ELSE log

\* The call in flight moves on to its next step
Goto(t, next) ==
    /\ pc' = [pc EXCEPT ![t] = next]
    /\ ret' = ret
    /\ ncalls' = ncalls
    /\ log' = log

\* counter += 1, whatever n is
CounterAdd_One(field, n) == stats' = [stats EXCEPT ![field] = @ + 1]

\* counter += n
CounterAdd(field, n) == stats' = [stats EXCEPT ![field] = @ + n]

(***************************************************************************)
(* Arena access                                                            *)
(***************************************************************************)

\* safe_memcpy's refusal: n > dest_size (the pointers are never null here)
safe_memcpy_fails(n, dest_size) == n > dest_size

\* memcpy(buffer + pos, src + off, n)
CopyIn(buf, pos, src, off, n) ==
    [k \in DOMAIN buf |->
        IF k >= pos /\ k < pos + n THEN src[off + (k - pos) + 1] ELSE buf[k]]

\* memcpy(dst, buffer + pos, n): the n bytes read
CopyOut(buf, pos, n) == [i \in 1..n |-> buf[pos + i - 1]]

\* StoreWrapped with the copy one byte short
StoreWrapped_OneShort(buf, size, pos, src, n) ==
    [ failed |-> FALSE,
      buffer |-> [k \in DOMAIN buf |->
                    IF \E j \in 0..(n - 2) : k = (pos + j) % size
                    THEN src[((k - pos + size) % size) + 1]
                    ELSE buf[k]] ]

\* The stores of n bytes of src at pos, in one segment or split at the
\* arena's end (ring_buffer.c:375-387 for the header, 389-403 for the data)
StoreWrapped(buf, size, pos, src, n) ==
    IF pos + n <= size
    THEN [ failed |-> safe_memcpy_fails(n, size - pos),
           buffer |-> CopyIn(buf, pos, src, 0, n) ]
    ELSE LET first_part == size - pos
         IN  [ failed |-> safe_memcpy_fails(first_part, first_part)
                            \/ safe_memcpy_fails(n - first_part, size),
               buffer |-> CopyIn(CopyIn(buf, pos, src, 0, first_part),
                                 0, src, first_part, n - first_part) ]

\* The header read of ring_buffer.c:436-449, in one segment or two
LoadHeader(buf, size, pos) ==
    IF pos + HeaderSize <= size
    THEN CopyOut(buf, pos, HeaderSize)
    ELSE LET first_part == size - pos
         IN  CopyOut(buf, pos, first_part) \o CopyOut(buf, 0, HeaderSize - first_part)

\* A header with the checksum and the reserved field in each other's place
EncodeHeader_ChecksumLast(length, timestamp, checksum) ==
    U32Bytes(ARROW_IPC_MAGIC) \o U32Bytes(length) \o U64Bytes(timestamp)
        \o U32Bytes(0) \o checksum

\* The packed arrow_ipc_header_t as its 24 bytes
EncodeHeader(length, timestamp, checksum) ==
    U32Bytes(ARROW_IPC_MAGIC) \o U32Bytes(length) \o U64Bytes(timestamp)
        \o checksum \o U32Bytes(0)

\* The fields of the 24 bytes of a header
HeaderMagic(h) == SubSeq(h, 1, 4)

HeaderLength(h) == SubSeq(h, 5, 8)

HeaderTimestamp(h) == SubSeq(h, 9, 16)

HeaderChecksum(h) == SubSeq(h, 17, 20)

HeaderReserved(h) == SubSeq(h, 21, 24)

(***************************************************************************)
(* ring_buffer_write                                                       *)
(***************************************************************************)

\* The arguments of a write to the arena: the data pointer (null or not),
\* the bytes it points to and the size passed
WriteArg(isnull, data, size) ==
    [ rbnull |-> FALSE, isnull |-> isnull, data |-> data, size |-> size ]

\* The same call with a null ring_buffer_t pointer
NullArena(a) == [a EXCEPT !.rbnull = TRUE]

\* A write that applies the size check before ring_buffer_validate
write_call_SizeFirst(t, a) ==
    /\ pc[t] = "idle"
    /\ UNCHANGED << arena, cursors, flags, msg, history, logging >>
    /\ IF a.rbnull \/ a.isnull \/ a.size = 0
       THEN /\ stats' = stats
            /\ ReturnAtOnce(t, "write", a, RING_BUFFER_ERROR_INVALID_PARAM, << >>)
       ELSE IF a.size > RING_BUFFER_MAX_MESSAGE_SIZE
       THEN /\ CounterAdd("write_errors", 1)
            /\ ReturnAtOnce(t, "write", a, RING_BUFFER_ERROR_TOO_LARGE, << >>)
       ELSE IF ~ring_buffer_validate
       THEN /\ CounterAdd("write_errors", 1)
            /\ ReturnAtOnce(t, "write", a, RING_BUFFER_ERROR_CORRUPTED, << >>)
       ELSE /\ stats' = stats
            /\ ret' = ret
            /\ log' = log
            /\ Enter(t, "write", a, "w_util_w")

\* ring_buffer.c:317-329: the parameter check, ring_buffer_validate and the
\* size check
write_call(t, a) ==
    /\ pc[t] = "idle"
    /\ UNCHANGED << arena, cursors, flags, msg, history, logging >>
    /\ IF a.rbnull \/ a.isnull \/ a.size = 0
       THEN /\ stats' = stats
            /\ ReturnAtOnce(t, "write", a, RING_BUFFER_ERROR_INVALID_PARAM, << >>)
       ELSE IF ~ring_buffer_validate
       THEN /\ CounterAdd("write_errors", 1)
            /\ ReturnAtOnce(t, "write", a, RING_BUFFER_ERROR_CORRUPTED, << >>)
       ELSE IF a.size > RING_BUFFER_MAX_MESSAGE_SIZE
       THEN /\ CounterAdd("write_errors", 1)
            /\ ReturnAtOnce(t, "write", a, RING_BUFFER_ERROR_TOO_LARGE, << >>)
       ELSE /\ stats' = stats
            /\ ret' = ret
            /\ log' = log
            /\ Enter(t, "write", a, "w_util_w")

\* ring_buffer_utilization, ring_buffer.c:204
write_util_load_write(t) ==
    /\ pc[t] = "w_util_w"
    /\ loc' = [loc EXCEPT ![t].tmp_pos = write_pos]
    /\ UNCHANGED << arena, cursors, flags, stats, msg, history, logging >>
    /\ Goto(t, "w_util_r")

\* ring_buffer_utilization, ring_buffer.c:205-214, and the comparison with
\* the threshold of ring_buffer.c:332
write_util_load_read(t) ==
    /\ pc[t] = "w_util_r"
    /\ loc' = [loc EXCEPT ![t].read_pos = read_pos]
    /\ UNCHANGED << arena, cursors, flags, stats, msg, history, logging >>
    /\ Goto(t, IF AtThreshold(loc[t].tmp_pos, read_pos, rb_size)
               THEN "w_bp_set" ELSE "w_bp_clear")

\* ring_buffer.c:333
write_backpressure_set(t) ==
    /\ pc[t] = "w_bp_set"
    /\ backpressure' = TRUE
    /\ UNCHANGED << arena, cursors, is_full, stats, loc, msg, history, logging >>
    /\ Goto(t, "w_bp_count")

\* ring_buffer.c:334-335
write_backpressure_count(t) ==
    /\ pc[t] = "w_bp_count"
    /\ CounterAdd("backpressure_events", 1)
    /\ UNCHANGED << arena, cursors, flags, msg, history, logging >>
    /\ Return(t, RING_BUFFER_ERROR_BACKPRESSURE, << >>)

\* ring_buffer.c:337, 340
write_backpressure_clear(t) ==
    /\ pc[t] = "w_bp_clear"
    /\ backpressure' = FALSE
    /\ loc' = [loc EXCEPT ![t].msg_size = total_message_size(loc[t].arg.size),
                          ![t].i = 0]
    /\ UNCHANGED << arena, cursors, is_full, stats, msg, history, logging >>
    /\ Goto(t, "w_avail_w")

\* ring_buffer_available_write, ring_buffer.c:220, called at 343 and 358
write_avail_load_write(t) ==
    /\ pc[t] = "w_avail_w"
    /\ loc' = [loc EXCEPT ![t].tmp_pos = write_pos]
    /\ UNCHANGED << arena, cursors, flags, stats, msg, history, logging >>
    /\ Goto(t, "w_avail_r")

\* A write that finds too little free space loads the cursors again in
\* place of returning Full
write_avail_load_read_Waits(t) ==
    /\ pc[t] = "w_avail_r"
    /\ loc' = [loc EXCEPT ![t].read_pos = read_pos]
    /\ UNCHANGED << arena, cursors, flags, stats, msg, history, logging >>
    /\ Goto(t, IF loc[t].msg_size > AvailableWrite(loc[t].tmp_pos, read_pos, rb_size)
               THEN "w_avail_w"
               ELSE IF loc[t].i = 0 THEN "w_load" ELSE "w_cas")

\* ring_buffer_available_write, ring_buffer.c:221-227, and the comparison
\* of ring_buffer.c:343 (before the loop) or 358 (in the loop)
write_avail_load_read(t) ==
    /\ pc[t] = "w_avail_r"
    /\ loc' = [loc EXCEPT ![t].read_pos = read_pos]
    /\ UNCHANGED << arena, cursors, flags, stats, msg, history, logging >>
    /\ Goto(t, IF loc[t].msg_size > AvailableWrite(loc[t].tmp_pos, read_pos, rb_size)
               THEN "w_full"
               ELSE IF loc[t].i = 0 THEN "w_load" ELSE "w_cas")

\* ring_buffer.c:344-345 and 359-360
write_full(t) ==
    /\ pc[t] = "w_full"
    /\ CounterAdd("write_errors", 1)
    /\ UNCHANGED << arena, cursors, flags, msg, history, logging >>
    /\ Return(t, RING_BUFFER_ERROR_FULL, << >>)

\* A reservation that leaves the mask out
NewWritePos_Unmasked(pos, msg_size, size) == pos + msg_size

\* (write_pos + msg_size) & (rb->size - 1)
NewWritePos(pos, msg_size, size) == BitAnd(pos + msg_size, size - 1)

\* ring_buffer.c:349-350
write_load_pos(t) ==
    /\ pc[t] = "w_load"
    /\ loc' = [loc EXCEPT ![t].write_pos = write_pos,
                          ![t].new_write_pos =
                              NewWritePos(write_pos, loc[t].msg_size, rb_size)]
    /\ UNCHANGED << arena, cursors, flags, stats, msg, history, logging >>
    /\ Goto(t, "w_cas")

\* A reservation that publishes the frame together with the
\* compare-exchange, before the header and payload are stored
write_cas_CommitsEarly(t) ==
    /\ pc[t] = "w_cas"
    /\ \E succeeds \in {write_pos = loc[t].write_pos, FALSE} :
         IF succeeds
         THEN /\ write_pos' = loc[t].new_write_pos
              /\ commit_pos' = loc[t].new_write_pos
              /\ reserved' = Append(reserved,
                                 [ tid |-> t, data |-> loc[t].arg.data,
                                   pos |-> loc[t].write_pos,
                                   msg_size |-> loc[t].msg_size ])
              /\ loc' = [loc EXCEPT ![t].resv = Len(reserved) + 1]
              /\ Goto(t, "w_header")
         ELSE /\ write_pos' = write_pos
              /\ commit_pos' = commit_pos
              /\ reserved' = reserved
              /\ loc' = [loc EXCEPT ![t].write_pos = write_pos,
                                    ![t].new_write_pos =
                                        NewWritePos(write_pos, loc[t].msg_size, rb_size),
                                    ![t].i = 1]
              /\ Goto(t, "w_avail_w")
    /\ UNCHANGED << arena, read_pos, flags, stats, msg, delivered, logging >>

\* atomic_compare_exchange_weak, ring_buffer.c:353-355: it succeeds when
\* write_pos holds the expected value, and may fail though it does; a
\* failure loads write_pos into the expected value and enters the loop
write_cas(t) ==
    /\ pc[t] = "w_cas"
    /\ \E succeeds \in {write_pos = loc[t].write_pos, FALSE} :
         IF succeeds
         THEN /\ write_pos' = loc[t].new_write_pos
              /\ reserved' = Append(reserved,
                                 [ tid |-> t, data |-> loc[t].arg.data,
                                   pos |-> loc[t].write_pos,
                                   msg_size |-> loc[t].msg_size ])
              /\ loc' = [loc EXCEPT ![t].resv = Len(reserved) + 1]
              /\ Goto(t, "w_header")
         ELSE /\ write_pos' = write_pos
              /\ reserved' = reserved
              /\ loc' = [loc EXCEPT ![t].write_pos = write_pos,
                                    ![t].new_write_pos =
                                        NewWritePos(write_pos, loc[t].msg_size, rb_size),
                                    ![t].i = 1]
              /\ Goto(t, "w_avail_w")
    /\ UNCHANGED << arena, read_pos, commit_pos, flags, stats, msg, delivered, logging >>

\* ring_buffer.c:365-387: the header, with the timestamp and the checksum
\* of the data, stored at the reserved position
write_header(t) ==
    /\ pc[t] = "w_header"
    /\ \E ts \in Timestamps :
         LET header == EncodeHeader(loc[t].arg.size, ts,
                                    ring_buffer_crc32(loc[t].arg.data))
             stored == StoreWrapped(buffer, rb_size, loc[t].write_pos, header,
                                    HeaderSize)
         IN  IF stored.failed
             THEN /\ buffer' = buffer
                  /\ UNCHANGED << rb_size, rb_magic, rb_buffer, rb_freed, cursors,
                                  flags, stats, msg, history, logging >>
                  /\ Return(t, "Error", << >>)
             ELSE /\ buffer' = stored.buffer
                  /\ loc' = [loc EXCEPT ![t].header = header]
                  /\ UNCHANGED << rb_size, rb_magic, rb_buffer, rb_freed, cursors,
                                  flags, stats, msg, history, logging >>
                  /\ Goto(t, "w_data")

\* (write_pos + sizeof(arrow_ipc_header_t)) & (rb->size - 1)
DataStart(pos, size) == BitAnd(pos + HeaderSize, size - 1)

\* ring_buffer.c:390-403: the payload stored after the header
write_data(t) ==
    /\ pc[t] = "w_data"
    /\ LET stored == StoreWrapped(buffer, rb_size,
                                  DataStart(loc[t].write_pos, rb_size),
                                  loc[t].arg.data, loc[t].arg.size)
       IN  IF stored.failed
           THEN /\ buffer' = buffer
                /\ UNCHANGED << rb_size, rb_magic, rb_buffer, rb_freed, cursors,
                                flags, stats, msg, history, logging >>
                /\ Return(t, "Error", << >>)
           ELSE /\ buffer' = stored.buffer
                /\ loc' = loc
                /\ UNCHANGED << rb_size, rb_magic, rb_buffer, rb_freed, cursors,
                                flags, stats, msg, history, logging >>
                /\ Goto(t, "w_commit")

\* The position a producer publishes
CommitValue(t) == loc[t].new_write_pos

\* ring_buffer.c:406-409: the barrier and the store of commit_pos
write_commit(t) ==
    /\ pc[t] = "w_commit"
    /\ commit_pos' = CommitValue(t)
    /\ loc' = loc
    /\ UNCHANGED << arena, write_pos, read_pos, flags, stats, msg, history, logging >>
    /\ Goto(t, "w_count_msg")

\* A variant of the counting step that leaves messages_written as it was
write_count_message_Skipped(t) ==
    /\ pc[t] = "w_count_msg"
    /\ stats' = stats
    /\ loc' = loc
    /\ UNCHANGED << arena, cursors, flags, msg, history, logging >>
    /\ Goto(t, "w_count_bytes")

\* ring_buffer.c:412
write_count_message(t) ==
    /\ pc[t] = "w_count_msg"
    /\ CounterAdd("messages_written", 1)
    /\ loc' = loc
    /\ UNCHANGED << arena, cursors, flags, msg, history, logging >>
    /\ Goto(t, "w_count_bytes")

\* ring_buffer.c:413-415
write_count_bytes(t) ==
    /\ pc[t] = "w_count_bytes"
    /\ CounterAdd("bytes_written", loc[t].arg.size)
    /\ UNCHANGED << arena, cursors, flags, msg, history, logging >>
    /\ Return(t, RING_BUFFER_SUCCESS, << >>)

\* One step of a write in flight
write_step(t) ==
    \/ write_util_load_write(t)
    \/ write_util_load_read(t)
    \/ write_backpressure_set(t)
    \/ write_backpressure_count(t)
    \/ write_backpressure_clear(t)
    \/ write_avail_load_write(t)
    \/ write_avail_load_read(t)
    \/ write_full(t)
    \/ write_load_pos(t)
    \/ write_cas(t)
    \/ write_header(t)
    \/ write_data(t)
    \/ write_commit(t)
    \/ write_count_message(t)
    \/ write_count_bytes(t)

(***************************************************************************)
(* ring_buffer_read                                                        *)
(***************************************************************************)

\* The arguments of a read from the arena: whether the message pointer is
\* null
ReadArg(isnull) == [ rbnull |-> FALSE, isnull |-> isnull ]

\* A read that counts a null argument as a read error
read_call_CountsInvalid(t, a) ==
    /\ pc[t] = "idle"
    /\ UNCHANGED << arena, cursors, flags, msg, history, logging >>
    /\ IF a.rbnull \/ a.isnull
       THEN /\ CounterAdd("read_errors", 1)
            /\ ReturnAtOnce(t, "read", a, RING_BUFFER_ERROR_INVALID_PARAM, << >>)
       ELSE IF ~ring_buffer_validate
       THEN /\ CounterAdd("read_errors", 1)
            /\ ReturnAtOnce(t, "read", a, RING_BUFFER_ERROR_CORRUPTED, << >>)
       ELSE /\ stats' = stats
            /\ ret' = ret
            /\ log' = log
            /\ Enter(t, "read", a, "r_avail_c")

\* ring_buffer.c:419-426: the parameter check and ring_buffer_validate
read_call(t, a) ==
    /\ pc[t] = "idle"
    /\ UNCHANGED << arena, cursors, flags, msg, history, logging >>
    /\ IF a.rbnull \/ a.isnull
       THEN /\ stats' = stats
            /\ ReturnAtOnce(t, "read", a, RING_BUFFER_ERROR_INVALID_PARAM, << >>)
       ELSE IF ~ring_buffer_validate
       THEN /\ CounterAdd("read_errors", 1)
            /\ ReturnAtOnce(t, "read", a, RING_BUFFER_ERROR_CORRUPTED, << >>)
       ELSE /\ stats' = stats
            /\ ret' = ret
            /\ log' = log
            /\ Enter(t, "read", a, "r_avail_c")

\* ring_buffer_available_read, ring_buffer.c:233, called at 429 and 465
read_avail_load_commit(t) ==
    /\ pc[t] = "r_avail_c"
    /\ loc' = [loc EXCEPT ![t].tmp_pos = commit_pos]
    /\ UNCHANGED << arena, cursors, flags, stats, msg, history, logging >>
    /\ Goto(t, "r_avail_r")

\* An availability check that asks for the header only, also the second
\* time
read_avail_load_read_HeaderOnly(t) ==
    /\ pc[t] = "r_avail_r"
    /\ UNCHANGED << arena, cursors, flags, msg, history, logging >>
    /\ LET available == AvailableRead(loc[t].tmp_pos, read_pos, rb_size)
       IN  IF available < HeaderSize
           THEN /\ stats' = stats
                /\ Return(t, RING_BUFFER_ERROR_EMPTY, << >>)
           ELSE /\ stats' = stats
                /\ loc' = loc
                /\ Goto(t, IF loc[t].i = 0 THEN "r_load" ELSE "r_data")

\* ring_buffer_available_read, ring_buffer.c:234-240, and the comparison of
\* ring_buffer.c:429 (with the header size) or 465 (with the frame size)
read_avail_load_read(t) ==
    /\ pc[t] = "r_avail_r"
    /\ UNCHANGED << arena, cursors, flags, msg, history, logging >>
    /\ LET available == AvailableRead(loc[t].tmp_pos, read_pos, rb_size)
           needed == IF loc[t].i = 0 THEN HeaderSize ELSE loc[t].msg_size
       IN  IF available < needed
           THEN /\ stats' = stats
                /\ Return(t, RING_BUFFER_ERROR_EMPTY, << >>)
           ELSE /\ stats' = stats
                /\ loc' = loc
                /\ Goto(t, IF loc[t].i = 0 THEN "r_load" ELSE "r_data")

\* ring_buffer.c:433
read_load_pos(t) ==
    /\ pc[t] = "r_load"
    /\ loc' = [loc EXCEPT ![t].read_pos = read_pos]
    /\ UNCHANGED << arena, cursors, flags, stats, msg, history, logging >>
    /\ Goto(t, "r_header")

\* A header check that looks at the length only
HeaderRejected_LengthOnly(header) ==
    U32Greater(HeaderLength(header), RING_BUFFER_MAX_MESSAGE_SIZE)

\* header.magic != ARROW_IPC_MAGIC || header.length > RING_BUFFER_MAX_MESSAGE_SIZE
HeaderRejected(header) ==
    \/ HeaderMagic(header) # U32Bytes(ARROW_IPC_MAGIC)
    \/ U32Greater(HeaderLength(header), RING_BUFFER_MAX_MESSAGE_SIZE)

\* ring_buffer.c:437-462: the header copied out of the arena and checked
read_header(t) ==
    /\ pc[t] = "r_header"
    /\ LET header == LoadHeader(buffer, rb_size, loc[t].read_pos)
       IN  loc' = [loc EXCEPT
                      ![t].header = header,
                      ![t].size = IF HeaderRejected(header) THEN 0
                                  ELSE U32Value(HeaderLength(header)),
                      ![t].msg_size =
                          IF HeaderRejected(header) THEN 0
                          ELSE total_message_size(U32Value(HeaderLength(header))),
                      ![t].i = 1]
    /\ UNCHANGED << arena, cursors, flags, stats, msg, history, logging >>
    /\ Goto(t, IF HeaderRejected(LoadHeader(buffer, rb_size, loc[t].read_pos))
               THEN "r_error" ELSE "r_avail_c")

\* ring_buffer.c:453-454, 458-459, 480-481, 487-488
read_error(t) ==
    /\ pc[t] = "r_error"
    /\ CounterAdd("read_errors", 1)
    /\ UNCHANGED << arena, cursors, flags, msg, history, logging >>
    /\ Return(t, RING_BUFFER_ERROR_CORRUPTED, << >>)

\* A test that also rejects a payload starting in the first 24 bytes of
\* the region, which is where it starts when the header reached the end
PayloadContiguous_HeaderToo(data_start, length, size) ==
    data_start >= 24 /\ data_start + length <= size

\* data_start + header.length <= rb->size
PayloadContiguous(data_start, length, size) == data_start + length <= size

\* ring_buffer.c:470-489: the payload pointer and its checksum; the bytes
\* the checksum was computed over are remembered for the history
read_data(t) ==
    /\ pc[t] = "r_data"
    /\ LET data_start == DataStart(loc[t].read_pos, rb_size)
       IN  IF PayloadContiguous(data_start, loc[t].size, rb_size)
           THEN /\ msg' = [msg EXCEPT ![t].data = data_start,
                                      ![t].data_size = loc[t].size]
                /\ loc' = [loc EXCEPT ![t].out = CopyOut(buffer, data_start, loc[t].size)]
                /\ Goto(t, IF ring_buffer_crc32(CopyOut(buffer, data_start, loc[t].size))
                                # HeaderChecksum(loc[t].header)
                           THEN "r_error" ELSE "r_store")
           ELSE /\ msg' = msg
                /\ loc' = loc
                /\ Goto(t, "r_error")
    /\ UNCHANGED << arena, cursors, flags, stats, history, logging >>

\* A read that does not advance
NewReadPos_Stuck(pos, msg_size, size) == pos

\* (read_pos + msg_size) & (rb->size - 1)
NewReadPos(pos, msg_size, size) == BitAnd(pos + msg_size, size - 1)

\* A variant of the store of read_pos that also clears the backpressure
\* flag
read_store_pos_ClearsFlag(t) ==
    /\ pc[t] = "r_store"
    /\ msg' = [msg EXCEPT ![t].header = loc[t].header]
    /\ read_pos' = NewReadPos(loc[t].read_pos, loc[t].msg_size, rb_size)
    /\ backpressure' = FALSE
    /\ loc' = loc
    /\ UNCHANGED << arena, write_pos, commit_pos, is_full, stats, history, logging >>
    /\ Goto(t, "r_count_msg")

\* ring_buffer.c:492-496
read_store_pos(t) ==
    /\ pc[t] = "r_store"
    /\ msg' = [msg EXCEPT ![t].header = loc[t].header]
    /\ read_pos' = NewReadPos(loc[t].read_pos, loc[t].msg_size, rb_size)
    /\ loc' = loc
    /\ UNCHANGED << arena, write_pos, commit_pos, flags, stats, history, logging >>
    /\ Goto(t, "r_count_msg")

\* ring_buffer.c:499
read_count_message(t) ==
    /\ pc[t] = "r_count_msg"
    /\ CounterAdd("messages_read", 1)
    /\ loc' = loc
    /\ UNCHANGED << arena, cursors, flags, msg, history, logging >>
    /\ Goto(t, "r_count_bytes")

\* What the caller holds when a read returns Success: the header copied
\* out, and the bytes msg->data points to
MessageView(t) ==
    [ header |-> msg[t].header, data |-> msg[t].data,
      payload |-> CopyOut(buffer, msg[t].data, msg[t].data_size) ]

\* ring_buffer.c:500-502
read_count_bytes(t) ==
    /\ pc[t] = "r_count_bytes"
    /\ CounterAdd("bytes_read", loc[t].size)
    /\ delivered' = Append(delivered,
                       [ tid |-> t, pos |-> loc[t].read_pos,
                         header |-> msg[t].header,
                         checked |-> loc[t].out,
                         data |-> msg[t].data,
                         data_size |-> msg[t].data_size,
                         payload |-> MessageView(t).payload ])
    /\ UNCHANGED << arena, cursors, flags, msg, reserved, logging >>
    /\ Return(t, RING_BUFFER_SUCCESS, MessageView(t))

\* One step of a read in flight
read_step(t) ==
    \/ read_avail_load_commit(t)
    \/ read_avail_load_read(t)
    \/ read_load_pos(t)
    \/ read_header(t)
    \/ read_error(t)
    \/ read_data(t)
    \/ read_store_pos(t)
    \/ read_count_message(t)
    \/ read_count_bytes(t)

(***************************************************************************)
(* Inspection calls                                                        *)
(***************************************************************************)

\* No arguments besides the arena
NoArg == [ isnull |-> FALSE ]

\* ring_buffer_utilization called on its own, ring_buffer.c:201-204
utilization_call(t) ==
    /\ pc[t] = "idle"
    /\ stats' = stats
    /\ ret' = ret
    /\ log' = log
    /\ UNCHANGED << arena, cursors, flags, msg, history, logging >>
    /\ Enter(t, "utilization", NoArg, "u_w")

utilization_load_write(t) ==
    /\ pc[t] = "u_w"
    /\ loc' = [loc EXCEPT ![t].tmp_pos = write_pos]
    /\ UNCHANGED << arena, cursors, flags, stats, msg, history, logging >>
    /\ Goto(t, "u_r")

\* ring_buffer.c:205-214: the double used / size, kept as the two integers
utilization_load_read(t) ==
    /\ pc[t] = "u_r"
    /\ UNCHANGED << arena, cursors, flags, stats, msg, history, logging >>
    /\ Return(t, "value",
              [ used |-> UsedBytes(loc[t].tmp_pos, read_pos, rb_size),
                size |-> rb_size ])

\* ring_buffer_available_write called on its own, ring_buffer.c:217-220
available_write_call(t) ==
    /\ pc[t] = "idle"
    /\ stats' = stats
    /\ ret' = ret
    /\ log' = log
    /\ UNCHANGED << arena, cursors, flags, msg, history, logging >>
    /\ Enter(t, "available_write", NoArg, "aw_w")

available_write_load_write(t) ==
    /\ pc[t] = "aw_w"
    /\ loc' = [loc EXCEPT ![t].tmp_pos = write_pos]
    /\ UNCHANGED << arena, cursors, flags, stats, msg, history, logging >>
    /\ Goto(t, "aw_r")

\* ring_buffer.c:221-227
available_write_load_read(t) ==
    /\ pc[t] = "aw_r"
    /\ UNCHANGED << arena, cursors, flags, stats, msg, history, logging >>
    /\ Return(t, "value", AvailableWrite(loc[t].tmp_pos, read_pos, rb_size))

\* The counters in the order ring_buffer_get_stats loads them and
\* ring_buffer_reset_stats stores them
StatFields ==
    << "messages_written", "messages_read", "bytes_written", "bytes_read",
       "write_errors", "read_errors", "backpressure_events" >>

\* ring_buffer_get_stats, ring_buffer.c:248-249
get_stats_call(t) ==
    /\ pc[t] = "idle"
    /\ stats' = stats
    /\ ret' = ret
    /\ log' = log
    /\ UNCHANGED << arena, cursors, flags, msg, history, logging >>
    /\ Enter(t, "get_stats", NoArg, "gs_load")

\* A get_stats that clears each counter as it loads it
get_stats_load_Clears(t) ==
    /\ pc[t] = "gs_load"
    /\ UNCHANGED << arena, cursors, flags, msg, history, logging >>
    /\ LET k == loc[t].i + 1
           out == [f \in {StatFields[j] : j \in 1..k} |->
                      IF f = StatFields[k] THEN stats[f] ELSE loc[t].out[f]]
       IN  /\ stats' = [stats EXCEPT ![StatFields[k]] = 0]
           /\ IF k = Len(StatFields)
              THEN Return(t, "void", out)
              ELSE /\ loc' = [loc EXCEPT ![t].i = k, ![t].out = out]
                   /\ Goto(t, "gs_load")

\* ring_buffer.c:251-257: one atomic load per step, into the caller's
\* ring_buffer_stats_t
get_stats_load(t) ==
    /\ pc[t] = "gs_load"
    /\ UNCHANGED << arena, cursors, flags, stats, msg, history, logging >>
    /\ LET k == loc[t].i + 1
           out == [f \in {StatFields[j] : j \in 1..k} |->
                      IF f = StatFields[k] THEN stats[f] ELSE loc[t].out[f]]
       IN  IF k = Len(StatFields)
           THEN Return(t, "void", out)
           ELSE /\ loc' = [loc EXCEPT ![t].i = k, ![t].out = out]
                /\ Goto(t, "gs_load")

\* ring_buffer_reset_stats, ring_buffer.c:260-261
reset_stats_call(t) ==
    /\ pc[t] = "idle"
    /\ stats' = stats
    /\ ret' = ret
    /\ log' = log
    /\ UNCHANGED << arena, cursors, flags, msg, history, logging >>
    /\ Enter(t, "reset_stats", NoArg, "rs_store")

\* A variant of the reset that leaves bytes_written as it was
reset_stats_store_KeepsBytes(t) ==
    /\ pc[t] = "rs_store"
    /\ stats' = [stats EXCEPT ![StatFields[loc[t].i + 1]] =
                     IF StatFields[loc[t].i + 1] = "bytes_written" THEN @ ELSE 0]
    /\ UNCHANGED << arena, cursors, flags, msg, history, logging >>
    /\ IF loc[t].i + 1 = Len(StatFields)
       THEN Return(t, "void", << >>)
       ELSE /\ loc' = [loc EXCEPT ![t].i = @ + 1]
            /\ Goto(t, "rs_store")

\* ring_buffer.c:263-269: one atomic store per step
reset_stats_store(t) ==
    /\ pc[t] = "rs_store"
    /\ stats' = [stats EXCEPT ![StatFields[loc[t].i + 1]] = 0]
    /\ UNCHANGED << arena, cursors, flags, msg, history, logging >>
    /\ IF loc[t].i + 1 = Len(StatFields)
       THEN Return(t, "void", << >>)
       ELSE /\ loc' = [loc EXCEPT ![t].i = @ + 1]
            /\ Goto(t, "rs_store")

\* ring_buffer_available_read called on its own, ring_buffer.c:230-233
available_read_call(t) ==
    /\ pc[t] = "idle"
    /\ stats' = stats
    /\ ret' = ret
    /\ log' = log
    /\ UNCHANGED << arena, cursors, flags, msg, history, logging >>
    /\ Enter(t, "available_read", NoArg, "ar_c")

available_read_load_commit(t) ==
    /\ pc[t] = "ar_c"
    /\ loc' = [loc EXCEPT ![t].tmp_pos = commit_pos]
    /\ UNCHANGED << arena, cursors, flags, stats, msg, history, logging >>
    /\ Goto(t, "ar_r")

\* ring_buffer.c:234-240
available_read_load_read(t) ==
    /\ pc[t] = "ar_r"
    /\ UNCHANGED << arena, cursors, flags, stats, msg, history, logging >>
    /\ Return(t, "value", AvailableRead(loc[t].tmp_pos, read_pos, rb_size))

\* An is_backpressure that clears the flag it loads
is_backpressure_call_Clears(t) ==
    /\ pc[t] = "idle"
    /\ backpressure' = FALSE
    /\ UNCHANGED << arena, cursors, is_full, stats, msg, history, logging >>
    /\ ReturnAtOnce(t, "is_backpressure", NoArg,
                    IF backpressure THEN "true" ELSE "false", << >>)

\* ring_buffer_is_backpressure, ring_buffer.c:243-246: one atomic load
is_backpressure_call(t) ==
    /\ pc[t] = "idle"
    /\ UNCHANGED << arena, cursors, flags, stats, msg, history, logging >>
    /\ ReturnAtOnce(t, "is_backpressure", NoArg,
                    IF backpressure THEN "true" ELSE "false", << >>)

\* One step of an inspection call in flight
inspect_step(t) ==
    \/ utilization_load_write(t)
    \/ utilization_load_read(t)
    \/ available_write_load_write(t)
    \/ available_write_load_read(t)

\* One step of a statistics call in flight
stats_step(t) ==
    \/ get_stats_load(t)
    \/ reset_stats_store(t)

(***************************************************************************)
(* Inputs                                                                  *)
(***************************************************************************)

\* Payload lengths the callers pass: frames of 32, 40 and 64 bytes
Lengths == {1, 9, 40}

\* Patterns of the payloads
Patterns == {1, 2}

\* The writes a caller may make with the given lengths
WriteArgs(lengths) ==
    { WriteArg(FALSE, Payload(p, n), n) : p \in Patterns, n \in lengths }

(***************************************************************************)
(* SeqSpec: one thread calling write and read in any order                 *)
(***************************************************************************)

\* Calls the thread of the sequential program makes
MaxSeqCalls == 4

\* Sizes passed to ring_buffer_create
SeqSizes == {60, 128}

SeqInit == InitWith(SeqSizes, TRUE)

SeqNext ==
    \/ /\ ncalls[1] < MaxSeqCalls
       /\ \E a \in WriteArgs(Lengths) : write_call(1, a)
    \/ /\ ncalls[1] < MaxSeqCalls
       /\ read_call(1, ReadArg(FALSE))
    \/ write_step(1)
    \/ read_step(1)

SeqSpec == SeqInit /\ [][SeqNext]_vars

(***************************************************************************)
(* SPSCSpec: one producer and one consumer running concurrently            *)
(***************************************************************************)

\* The payload a producer tags with its thread id and sequence number, as
\* writer_thread of the tests does
Tagged(t, seq, n) == WriteArg(FALSE, Payload(16 * t + seq, n), n)

\* Calls the producer makes
MaxSPSCWrites == 4

\* Calls the consumer makes
MaxSPSCReads == 4

SPSCSizes == {128}

SPSCLengths == {1, 9}

SPSCInit == InitWith(SPSCSizes, FALSE)

SPSCNext ==
    \/ /\ ncalls[1] < MaxSPSCWrites
       /\ \E n \in SPSCLengths : write_call(1, Tagged(1, ncalls[1] + 1, n))
    \/ /\ ncalls[2] < MaxSPSCReads
       /\ read_call(2, ReadArg(FALSE))
    \/ write_step(1)
    \/ read_step(2)

SPSCSpec == SPSCInit /\ [][SPSCNext]_vars

(***************************************************************************)
(* MPSpec: two producers and one consumer running concurrently             *)
(***************************************************************************)

\* The frames thread t has reserved so far
Written(t) == Cardinality({ k \in 1..Len(reserved) : reserved[k].tid = t })

Producers == {1, 2}

MPConsumers == {3}

\* Calls each producer makes, retries after Full and Backpressure included
MaxMPWrites == 2

\* Calls the consumer makes
MaxMPReads == 1

MPSizes == {128}

\* Payload lengths of the producers: the first writes frames of 56 bytes,
\* the second frames of 40 bytes
MPLengths(t) == IF t = 1 THEN {32} ELSE {9}

MPInit == InitWith(MPSizes, FALSE)

MPNext ==
    \/ \E t \in Producers :
         /\ ncalls[t] < MaxMPWrites
         /\ \E n \in MPLengths(t) : write_call(t, Tagged(t, Written(t) + 1, n))
    \/ \E t \in MPConsumers :
         /\ ncalls[t] < MaxMPReads
         /\ read_call(t, ReadArg(FALSE))
    \/ \E t \in Producers : write_step(t)
    \/ \E t \in MPConsumers : read_step(t)

MPSpec == MPInit /\ [][MPNext]_vars


(***************************************************************************)
(* MCSpec: one producer and two consumers running concurrently             *)
(***************************************************************************)

Consumers == {2, 3}

\* Calls the producer makes
MaxMCWrites == 3

\* Calls each consumer makes
MaxMCReads == 1

MCSizes == {128}

\* Payload lengths of the producer: frames of 40 and 104 bytes
MCLengths == {9, 80}

MCInit == InitWith(MCSizes, FALSE)

MCNext ==
    \/ /\ ncalls[1] < MaxMCWrites
       /\ \E n \in MCLengths : write_call(1, Tagged(1, Written(1) + 1, n))
    \/ \E t \in Consumers :
         /\ ncalls[t] < MaxMCReads
         /\ read_call(t, ReadArg(FALSE))
    \/ write_step(1)
    \/ \E t \in Consumers : read_step(t)

MCSpec == MCInit /\ [][MCNext]_vars

(***************************************************************************)
(* AltSpec: one thread writing and reading payloads of one length          *)
(***************************************************************************)

\* Calls the thread makes: five rounds of write and read
MaxAltCalls == 10

AltSizes == {60, 128}

\* The payload length of every write: frames of 40 bytes
AltLength == 9

AltInit == InitWith(AltSizes, TRUE)

AltNext ==
    \/ /\ ncalls[1] < MaxAltCalls
       /\ write_call(1, Tagged(1, ncalls[1] + 1, AltLength))
    \/ /\ ncalls[1] < MaxAltCalls
       /\ read_call(1, ReadArg(FALSE))
    \/ write_step(1)
    \/ read_step(1)

AltSpec == AltInit /\ [][AltNext]_vars

(***************************************************************************)
(* Spec: writers, a reader and a statistics thread running concurrently    *)
(***************************************************************************)

\* Calls the first thread makes, all of them writes
MaxWrites == 1

\* Calls the second thread makes, each a write or a read
MaxCalls == 2

\* Calls the third thread makes, each get_stats or reset_stats
MaxStatsCalls == 1

Sizes == {60, 128}

\* Payload lengths of the first and of the second thread: frames of 104
\* and of 40 bytes
LengthOf(t) == IF t = 1 THEN 80 ELSE 9

Init == InitWith(Sizes, FALSE)

Next ==
    \/ /\ ncalls[1] < MaxWrites
       /\ write_call(1, Tagged(1, Written(1) + 1, LengthOf(1)))
    \/ /\ ncalls[2] < MaxCalls
       /\ write_call(2, Tagged(2, Written(2) + 1, LengthOf(2)))
    \/ /\ ncalls[2] < MaxCalls
       /\ read_call(2, ReadArg(FALSE))
    \/ /\ ncalls[3] < MaxStatsCalls
       /\ get_stats_call(3)
    \/ /\ ncalls[3] < MaxStatsCalls
       /\ reset_stats_call(3)
    \/ \E t \in {1, 2} : write_step(t)
    \/ read_step(2)
    \/ stats_step(3)

Spec == Init /\ [][Next]_vars

(***************************************************************************)
(* OccSpec: utilization and available_write on every pair of cursors       *)
(***************************************************************************)

\* Calls the thread makes
MaxOccCalls == 2

OccSizes == {16, 32}

\* The descriptor of a created arena with write_pos and read_pos at any
\* two positions of the region; the two functions read the cursors and
\* size only
OccInit ==
    /\ \E s \in OccSizes :
         LET rb == ring_buffer_create(s)
         IN  /\ buffer = rb.buffer
             /\ rb_size = rb.size
             /\ rb_magic = rb.magic
             /\ rb_buffer = rb.ptr
             /\ rb_freed = FALSE
             /\ write_pos \in 0..(rb.size - 1)
             /\ read_pos \in 0..(rb.size - 1)
             /\ commit_pos = write_pos
             /\ is_full = rb.is_full
             /\ backpressure = rb.backpressure
             /\ stats = rb.stats
    /\ pc = [t \in Threads |-> "idle"]
    /\ loc = [t \in Threads |-> IdleLoc]
    /\ ret = [t \in Threads |-> "none"]
    /\ msg = [t \in Threads |-> NoMessage]
    /\ reserved = << >>
    /\ delivered = << >>
    /\ log = << >>
    /\ logging = TRUE
    /\ ncalls = [t \in Threads |-> 0]

OccNext ==
    \/ /\ ncalls[1] < MaxOccCalls
       /\ utilization_call(1)
    \/ /\ ncalls[1] < MaxOccCalls
       /\ available_write_call(1)
    \/ inspect_step(1)

OccSpec == OccInit /\ [][OccNext]_vars

(***************************************************************************)
(* FillSpec: one thread writing frames of one size and reading them        *)
(***************************************************************************)

\* Calls the thread makes
MaxFillCalls == 10

FillSizes == {60, 128}

\* Payload lengths: frames of 40 and 64 bytes
FillLengths == {9, 40}

\* Every write so far passed n bytes
SameLength(n) ==
    \A i \in 1..Len(log) : log[i].op = "write" => log[i].arg.size = n

FillInit == InitWith(FillSizes, TRUE)

FillNext ==
    \/ /\ ncalls[1] < MaxFillCalls
       /\ \E n \in FillLengths :
            /\ SameLength(n)
            /\ write_call(1, Tagged(1, ncalls[1] + 1, n))
    \/ /\ ncalls[1] < MaxFillCalls
       /\ read_call(1, ReadArg(FALSE))
    \/ write_step(1)
    \/ read_step(1)

FillSpec == FillInit /\ [][FillNext]_vars

(***************************************************************************)
(* Rejected calls.  One thread makes a few calls in any order: writes of   *)
(* payloads that fit and payloads that do not, writes and reads with a null *)
(* argument, writes of no bytes and of more than the largest message, and  *)
(* reads.  Between calls the arena, which the owner of the region can      *)
(* reach through the buffer field of ring_buffer_t, may have one byte of   *)
(* the frame at read_pos overwritten.                                      *)
(***************************************************************************)

MaxErrCalls == 3

ErrSizes == {128}

\* Payload lengths: frames of 40, 104 and 128 bytes
ErrLengths == {9, 80, 100}

\* Sizes past the region: the largest message and one byte more.  The call
\* returns before it reads the bytes, which are left out
HugeSizes == {RING_BUFFER_MAX_MESSAGE_SIZE, RING_BUFFER_MAX_MESSAGE_SIZE + 1}

ErrWriteArgs ==
    LET valid == { Tagged(1, 1, n) : n \in ErrLengths }
    IN  valid
          \cup { NullArena(Tagged(1, 1, 9)) }
          \cup { WriteArg(TRUE, << >>, 9) }
          \cup { WriteArg(FALSE, Payload(1, 1), 0) }
          \cup { WriteArg(FALSE, << >>, n) : n \in HugeSizes }

ErrReadArgs == { ReadArg(FALSE), ReadArg(TRUE), NullArena(ReadArg(FALSE)) }

\* Offsets from read_pos of the byte overwritten: the magic, the low and
\* the high byte of the length, the checksum and the first payload byte
CorruptOffsets == {0, 4, 7, 16, 24}

\* A store to one byte of the region between two calls of thread t
corrupt_byte(t, off) ==
    /\ pc[t] = "idle"
    /\ buffer' = [buffer EXCEPT ![(read_pos + off) % rb_size] = 255 - @]
    /\ ncalls' = [ncalls EXCEPT ![t] = @ + 1]
    /\ UNCHANGED << rb_size, rb_magic, rb_buffer, rb_freed, cursors, flags,
                    stats, pc, loc, ret, msg, reserved, delivered, logging >>
    /\ log' = IF logging
              THEN Append(log, LogEntry(t, "corrupt", [ off |-> off ], Snapshot,
                                        ret[t], << >>, Snapshot'))
              ELSE log

ErrInit == InitWith(ErrSizes, TRUE)

ErrNext ==
    \/ /\ ncalls[1] < MaxErrCalls
       /\ \E a \in ErrWriteArgs : write_call(1, a)
    \/ /\ ncalls[1] < MaxErrCalls
       /\ \E a \in ErrReadArgs : read_call(1, a)
    \/ /\ ncalls[1] < MaxErrCalls
       /\ \E off \in CorruptOffsets : corrupt_byte(1, off)
    \/ write_step(1)
    \/ read_step(1)

ErrSpec == ErrInit /\ [][ErrNext]_vars

(***************************************************************************)
(* Counters under concurrency.  Thread 1 writes, thread 2 writes or reads, *)
(* thread 3 reads, all at once.  No thread resets the counters.            *)
(***************************************************************************)

\* Calls thread 1 makes
MaxTallyWrites == 2

\* Calls threads 2 and 3 make, each
MaxTallyCalls == 1

TallySizes == {128}

\* Payload lengths by thread: frames of 56 and 48 bytes
TallyLength(t) == IF t = 1 THEN 32 ELSE 24

TallyInit == InitWith(TallySizes, FALSE)

TallyNext ==
    \/ /\ ncalls[1] < MaxTallyWrites
       /\ write_call(1, Tagged(1, Written(1) + 1, TallyLength(1)))
    \/ /\ ncalls[2] < MaxTallyCalls
       /\ write_call(2, Tagged(2, Written(2) + 1, TallyLength(2)))
    \/ \E t \in {2, 3} :
         /\ ncalls[t] < MaxTallyCalls
         /\ read_call(t, ReadArg(FALSE))
    \/ \E t \in {1, 2} : write_step(t)
    \/ \E t \in {2, 3} : read_step(t)

TallySpec == TallyInit /\ [][TallyNext]_vars

(***************************************************************************)
(* Progress.  Two producers and a consumer make one call each on a small   *)
(* arena, all at once, under fair scheduling.                              *)
(***************************************************************************)

\* Calls each thread makes
MaxLiveCalls == 1

LiveSizes == {64}

\* Payload lengths of the producers: frames of 56 and 40 bytes
LiveLength(t) == IF t = 1 THEN 32 ELSE 9

LiveInit == InitWith(LiveSizes, FALSE)

LiveNext ==
    \/ \E t \in Producers :
         /\ ncalls[t] < MaxLiveCalls
         /\ write_call(t, Tagged(t, Written(t) + 1, LiveLength(t)))
    \/ \E t \in MPConsumers :
         /\ ncalls[t] < MaxLiveCalls
         /\ read_call(t, ReadArg(FALSE))
    \/ \E t \in Producers : write_step(t)
    \/ \E t \in MPConsumers : read_step(t)

\* The compare-exchange of thread t succeeds: write_pos moves
ReservationSucceeds(t) == write_cas(t) /\ write_pos' # write_pos

\* The positions inside write and read
CallLabels ==
    { "w_util_w", "w_util_r", "w_bp_set", "w_bp_count", "w_bp_clear",
      "w_avail_w", "w_avail_r", "w_full", "w_load", "w_cas", "w_header",
      "w_data", "w_commit", "w_count_msg", "w_count_bytes",
      "r_avail_c", "r_avail_r", "r_load", "r_header", "r_error", "r_data",
      "r_store", "r_count_msg", "r_count_bytes" }

\* Thread t, inside a call, takes its next step: every step of a call
\* moves the thread to another position, and only its own steps do
Advances(t) ==
    /\ pc[t] # "idle"
    /\ \E p \in (CallLabels \cup {"idle"}) \ {pc[t]} : pc' = [pc EXCEPT ![t] = p]

\* Scheduling: a thread inside a call keeps taking steps, and a
\* compare-exchange that could succeed again and again does not fail
\* spuriously for ever
LiveFairness ==
    /\ \A t \in Threads : WF_pc(Advances(t))
    /\ \A t \in Producers : SF_vars(ReservationSucceeds(t))

LiveSpec == LiveInit /\ [][LiveNext]_vars /\ LiveFairness

(***************************************************************************)
(* Creation.  One thread creates arenas of any requested size, the sizes   *)
(* near the top of size_t included; each call is recorded with the         *)
(* descriptor it returned.  Sizes are held as sets of bit positions.       *)
(***************************************************************************)

\* Calls made
MaxCreateCalls == 2

\* Every requested size up to this one is tried
MaxCreateSize == 40

\* Requested sizes: 0, the small ones, the neighbours of 1024, and 2^63,
\* 2^63 + 1 and SIZE_MAX
CreateSizes ==
    { U64Bits(k) : k \in (0..MaxCreateSize) \cup {1023, 1024, 1025} }
      \cup { {63}, {0, 63}, 0..63 }

\* ring_buffer_create(size) called by thread t, ring_buffer.c:112-178: a
\* new descriptor and region, the arena at hand is left as it is.  A
\* capacity that wrapped to 0 makes mmap fail and the call fall back to
\* malloc(0), which returns a null pointer or not as the C library
\* chooses
create_call(t, size) ==
    /\ UNCHANGED << arena, cursors, flags, stats, msg, history, logging >>
    /\ LET n == next_power_of_2_u64(
                    IF size = {} THEN U64Bits(RING_BUFFER_DEFAULT_SIZE) ELSE size)
       IN  \E allocated \in IF n = {} THEN BOOLEAN ELSE {TRUE} :
             IF allocated
             THEN ReturnAtOnce(t, "create", [ size |-> size ], "created",
                               calloc_descriptor(n))
             ELSE ReturnAtOnce(t, "create", [ size |-> size ], "NULL", << >>)

CreateInit == InitWith({64}, TRUE)

CreateNext ==
    /\ ncalls[1] < MaxCreateCalls
    /\ \E size \in CreateSizes : create_call(1, size)

CreateSpec == CreateInit /\ [][CreateNext]_vars

(***************************************************************************)
(* Statistics in sequence.  One thread writes, reads, takes snapshots of   *)
(* the counters and resets them, in any order.                             *)
(***************************************************************************)

\* Calls made
MaxSnapCalls == 4

SnapSizes == {128}

\* Payload lengths: frames of 40 and 104 bytes
SnapLengths == {9, 80}

SnapInit == InitWith(SnapSizes, TRUE)

SnapNext ==
    \/ /\ ncalls[1] < MaxSnapCalls
       /\ \E n \in SnapLengths : write_call(1, Tagged(1, ncalls[1] + 1, n))
    \/ /\ ncalls[1] < MaxSnapCalls
       /\ read_call(1, ReadArg(FALSE))
    \/ /\ ncalls[1] < MaxSnapCalls
       /\ get_stats_call(1)
    \/ /\ ncalls[1] < MaxSnapCalls
       /\ reset_stats_call(1)
    \/ write_step(1)
    \/ read_step(1)
    \/ stats_step(1)

SnapSpec == SnapInit /\ [][SnapNext]_vars

(***************************************************************************)
(* The descriptor.  ring_buffer_t is declared in ring_buffer.h, so a       *)
(* caller can store to its fields between two calls; ring_buffer_validate  *)
(* is what write and read rely on to notice.  ring_buffer_destroy releases *)
(* the region and the descriptor.                                          *)
(***************************************************************************)

\* Calls made
MaxDescCalls == 3

DescSizes == {64}

\* Payload lengths: frames of 40 and 56 bytes
DescLengths == {9, 30}

\* The fields ring_buffer_validate reads and the values stored to them: a
\* wrong magic, a null and a failed mapping, capacities that are zero, not
\* a power of two and a smaller power of two, a cursor inside the region
\* and at the capacity
DescriptorStores ==
    { [ field |-> "magic", value |-> 0 ] }
      \cup { [ field |-> "buffer", value |-> v ] : v \in {"NULL", "MAP_FAILED"} }
      \cup { [ field |-> "size", value |-> v ] : v \in {0, 24, 32} }
      \cup { [ field |-> f, value |-> v ] :
                f \in {"write_pos", "read_pos", "commit_pos"}, v \in {32, 64} }

\* A store by the caller to one field of the descriptor between two calls
descriptor_store(t, st) ==
    /\ pc[t] = "idle"
    /\ ~rb_freed
    /\ rb_magic' = IF st.field = "magic" THEN st.value ELSE rb_magic
    /\ rb_buffer' = IF st.field = "buffer" THEN st.value ELSE rb_buffer
    /\ rb_size' = IF st.field = "size" THEN st.value ELSE rb_size
    /\ write_pos' = IF st.field = "write_pos" THEN st.value ELSE write_pos
    /\ read_pos' = IF st.field = "read_pos" THEN st.value ELSE read_pos
    /\ commit_pos' = IF st.field = "commit_pos" THEN st.value ELSE commit_pos
    /\ ncalls' = [ncalls EXCEPT ![t] = @ + 1]
    /\ UNCHANGED << buffer, rb_freed, flags, stats, pc, loc, ret, msg, reserved,
                    delivered, logging >>
    /\ log' = IF logging
              THEN Append(log, LogEntry(t, "store", st, Snapshot, ret[t], << >>,
                                        Snapshot'))
              ELSE log

\* ring_buffer_validate called by thread t, with a null pointer or with
\* the descriptor.  A descriptor that was freed is read through a dangling
\* pointer: either answer can come back.
validate_call(t, rbnull) ==
    /\ pc[t] = "idle"
    /\ UNCHANGED << arena, cursors, flags, stats, msg, history, logging >>
    /\ \E answer \in BOOLEAN :
         /\ rbnull => ~answer
         /\ (~rbnull /\ ~rb_freed) => (answer <=> ring_buffer_validate)
         /\ ReturnAtOnce(t, "validate", [ rbnull |-> rbnull ],
                         IF answer THEN "true" ELSE "false", << >>)

\* ring_buffer_destroy: nothing for a null pointer; otherwise the region is
\* unmapped or freed and the descriptor is freed.  No field of the
\* descriptor is stored to.
ring_buffer_destroy(t, rbnull) ==
    /\ pc[t] = "idle"
    /\ ~rb_freed
    /\ rb_freed' = ~rbnull
    /\ UNCHANGED << buffer, rb_size, rb_magic, rb_buffer, cursors, flags, stats,
                    msg, history, logging >>
    /\ ReturnAtOnce(t, "destroy", [ rbnull |-> rbnull ], "void", << >>)

DescInit == InitWith(DescSizes, TRUE)

\* The calls of one thread; after ring_buffer_destroy only
\* ring_buffer_validate is called
DescNext ==
    \/ /\ ncalls[1] < MaxDescCalls
       /\ ~rb_freed
       /\ \E n \in DescLengths : write_call(1, Tagged(1, ncalls[1] + 1, n))
    \/ /\ ncalls[1] < MaxDescCalls
       /\ ~rb_freed
       /\ read_call(1, ReadArg(FALSE))
    \/ /\ ncalls[1] < MaxDescCalls
       /\ \E st \in DescriptorStores : descriptor_store(1, st)
    \/ /\ ncalls[1] < MaxDescCalls
       /\ \E rbnull \in BOOLEAN : validate_call(1, rbnull)
    \/ /\ ncalls[1] < MaxDescCalls
       /\ \E rbnull \in BOOLEAN : ring_buffer_destroy(1, rbnull)
    \/ write_step(1)
    \/ read_step(1)

DescSpec == DescInit /\ [][DescNext]_vars

(***************************************************************************)
(* A reader behind a frame it cannot read.  The third thread writes one    *)
(* frame of 56 bytes and reads it, so that the cursors stand at 56.  Two   *)
(* producers then write a frame of 40 bytes each; the frame reserved at 96 *)
(* has its payload across the end of the 128-byte region.  The third       *)
(* thread polls once both frames are stored, while the producers publish   *)
(* them, and the first producer goes on writing after the polls.           *)
(***************************************************************************)

\* Calls the third thread makes before the producers start: a write and a
\* read
StallWarmup == 2

\* Polls of the third thread
MaxStallReads == 3

\* Writes of the first producer after the polls
MaxStallTail == 3

StallSizes == {128}

\* Payload lengths: the third thread writes a frame of 56 bytes, the
\* producers frames of 40 bytes
StallLength(t) == IF t = 3 THEN 32 ELSE 9

\* Payload lengths of the writes after the polls
StallTailLengths == {9, 32}

\* The producer has stored its header and payload, or has returned
Stored(t) ==
    /\ ncalls[t] >= 1
    /\ pc[t] \in {"w_commit", "w_count_msg", "w_count_bytes", "idle"}

\* The third thread has made its polls and the producers have returned
Polled ==
    /\ ncalls[3] = StallWarmup + MaxStallReads
    /\ \A t \in Threads : pc[t] = "idle"

StallInit == InitWith(StallSizes, FALSE)

StallNext ==
    \/ /\ ncalls[3] = 0
       /\ write_call(3, Tagged(3, 1, StallLength(3)))
    \/ /\ ncalls[3] = 1
       /\ read_call(3, ReadArg(FALSE))
    \/ \E t \in Producers :
         /\ ncalls[3] = StallWarmup
         /\ pc[3] = "idle"
         /\ ncalls[t] = 0
         /\ write_call(t, Tagged(t, 1, StallLength(t)))
    \/ /\ ncalls[3] \in StallWarmup..(StallWarmup + MaxStallReads - 1)
       /\ \A t \in Producers : Stored(t)
       /\ read_call(3, ReadArg(FALSE))
    \/ /\ Polled
       /\ ncalls[1] < 1 + MaxStallTail
       /\ \E n \in StallTailLengths : write_call(1, Tagged(1, ncalls[1] + 1, n))
    \/ \E t \in Threads : write_step(t)
    \/ read_step(3)

StallSpec == StallInit /\ [][StallNext]_vars

(***************************************************************************)
(* The whole interface in sequence.  One thread makes a few calls in any   *)
(* order: writes that pass the checks and writes that do not, reads, and   *)
(* every inspection and statistics function.                               *)
(***************************************************************************)

\* Calls made
MaxApiCalls == 4

ApiSizes == {128}

\* Payload lengths: frames of 40 and 104 bytes
ApiLengths == {9, 80}

\* The writes: payloads of the two lengths, a null data pointer and a
\* length above the largest message
ApiWriteArgs(seq) ==
    { Tagged(1, seq, n) : n \in ApiLengths }
      \cup { WriteArg(TRUE, << >>, 9) }
      \cup { WriteArg(FALSE, << >>, RING_BUFFER_MAX_MESSAGE_SIZE + 1) }

ApiInit == InitWith(ApiSizes, TRUE)

ApiNext ==
    \/ /\ ncalls[1] < MaxApiCalls
       /\ \E a \in ApiWriteArgs(ncalls[1] + 1) : write_call(1, a)
    \/ /\ ncalls[1] < MaxApiCalls
       /\ read_call(1, ReadArg(FALSE))
    \/ /\ ncalls[1] < MaxApiCalls
       /\ get_stats_call(1)
    \/ /\ ncalls[1] < MaxApiCalls
       /\ reset_stats_call(1)
    \/ /\ ncalls[1] < MaxApiCalls
       /\ utilization_call(1)
    \/ /\ ncalls[1] < MaxApiCalls
       /\ available_write_call(1)
    \/ /\ ncalls[1] < MaxApiCalls
       /\ available_read_call(1)
    \/ /\ ncalls[1] < MaxApiCalls
       /\ is_backpressure_call(1)
    \/ /\ ncalls[1] < MaxApiCalls
       /\ validate_call(1, FALSE)
    \/ write_step(1)
    \/ read_step(1)
    \/ stats_step(1)
    \/ inspect_step(1)
    \/ available_read_load_commit(1)
    \/ available_read_load_read(1)

ApiSpec == ApiInit /\ [][ApiNext]_vars

(***************************************************************************)
(* The order of the checks of a write.  One thread makes a few calls:      *)
(* writes with arguments that fail one check or several, on a descriptor   *)
(* whose magic may have been overwritten and at any occupancy.             *)
(***************************************************************************)

\* Calls made
MaxPrecCalls == 3

PrecSizes == {128}

\* Payload lengths: frames of 40 and 104 bytes
PrecLengths == {9, 80}

\* The writes: payloads of the two lengths; a null arena, null data and a
\* length of 0, each also with a length above the largest message; and
\* that length with data
PrecWriteArgs(seq) ==
    { Tagged(1, seq, n) : n \in PrecLengths }
      \cup { WriteArg(FALSE, << >>, RING_BUFFER_MAX_MESSAGE_SIZE + 1) }
      \cup { WriteArg(TRUE, << >>, n) : n \in {9, RING_BUFFER_MAX_MESSAGE_SIZE + 1} }
      \cup { NullArena(WriteArg(FALSE, << >>, n)) :
                n \in {9, RING_BUFFER_MAX_MESSAGE_SIZE + 1} }
      \cup { WriteArg(FALSE, << >>, 0) }

\* The store that makes the descriptor invalid
PrecStore == [ field |-> "magic", value |-> 0 ]

PrecInit == InitWith(PrecSizes, TRUE)

PrecNext ==
    \/ /\ ncalls[1] < MaxPrecCalls
       /\ \E a \in PrecWriteArgs(ncalls[1] + 1) : write_call(1, a)
    \/ /\ ncalls[1] < MaxPrecCalls
       /\ descriptor_store(1, PrecStore)
    \/ write_step(1)

PrecSpec == PrecInit /\ [][PrecNext]_vars

(***************************************************************************)
(* One producer and one consumer on a small arena, running concurrently,   *)
(* with a frame as large as the arena among the writes.                    *)
(***************************************************************************)

\* Calls the producer makes
MaxCapWrites == 3

\* Calls the consumer makes
MaxCapReads == 3

CapSizes == {64}

\* Payload lengths: frames of 40, 56 and 64 bytes
CapLengths == {9, 30, 40}

CapInit == InitWith(CapSizes, FALSE)

CapNext ==
    \/ /\ ncalls[1] < MaxCapWrites
       /\ \E n \in CapLengths : write_call(1, Tagged(1, ncalls[1] + 1, n))
    \/ /\ ncalls[2] < MaxCapReads
       /\ read_call(2, ReadArg(FALSE))
    \/ write_step(1)
    \/ read_step(2)

CapSpec == CapInit /\ [][CapNext]_vars

(***************************************************************************)
(* Rounding.  ring_buffer_next_power_of_2 applied to sizes over the whole  *)
(* range of size_t, each call recorded with its argument and its result.   *)
(***************************************************************************)

\* Calls made
MaxPowCalls == 1

\* Every argument up to this one is tried
MaxPowInput == 40

\* Arguments: the small ones, the neighbours of 1024 as in
\* test_utility_functions, and around every power of two up to SIZE_MAX:
\* 2^k, 2^k + 1, 2^(k+1) - 1 and 2^k + 2^(k-1), all as sets of bit
\* positions
PowInputs ==
    { U64Bits(k) : k \in (0..MaxPowInput) \cup {1023, 1024, 1025} }
      \cup { {k} : k \in 0..63 }
      \cup { {0, k} : k \in 1..63 }
      \cup { 0..k : k \in 0..63 }
      \cup { {k - 1, k} : k \in 1..63 }

\* ring_buffer_next_power_of_2(n) called by thread t, ring_buffer.c:100-111:
\* a pure function, the arena is left as it is
next_power_of_2_call(t, n) ==
    /\ UNCHANGED << arena, cursors, flags, stats, msg, history, logging >>
    /\ ReturnAtOnce(t, "next_power_of_2", [ n |-> n ], "value",
                    next_power_of_2_u64(n))

PowInit == InitWith({64}, TRUE)

PowNext ==
    /\ ncalls[1] < MaxPowCalls
    /\ \E n \in PowInputs : next_power_of_2_call(1, n)

PowSpec == PowInit /\ [][PowNext]_vars

(***************************************************************************)
(* Properties                                                              *)
(***************************************************************************)

\* The frame of a payload of n bytes fits a fresh arena: it is no larger
\* than the size - 1 bytes free when all cursors are 0
FitsFreshArena(n) == total_message_size(n) <= rb_size - 1

\* The i-th completed call is a read that returned Success
ReadSucceeded(i) ==
    /\ Len(log) >= i
    /\ log[i].op = "read"
    /\ log[i].ret = RING_BUFFER_SUCCESS

\* C1: Round-trip.  When the first call on a fresh arena is a write of a
\* payload p whose frame fits, it returns Success; a read that follows at
\* once returns Success with header.length = |p|, header.checksum =
\* CRC32(p) and the bytes of p; a second read then returns Empty.
C1_RoundTrip ==
    (Len(log) >= 1 /\ log[1].op = "write" /\ FitsFreshArena(log[1].arg.size)) =>
        /\ log[1].ret = RING_BUFFER_SUCCESS
        /\ (Len(log) >= 2 /\ log[2].op = "read") =>
               /\ ReadSucceeded(2)
               /\ HeaderLength(log[2].out.header) = U32Bytes(log[1].arg.size)
               /\ HeaderChecksum(log[2].out.header) = ring_buffer_crc32(log[1].arg.data)
               /\ log[2].out.payload = log[1].arg.data
        /\ (Len(log) >= 3 /\ log[2].op = "read" /\ log[3].op = "read") =>
               log[3].ret = RING_BUFFER_ERROR_EMPTY

\* A 40-byte payload written to the fresh 128-byte arena, read back, and
\* the second read found the arena empty
C1_Witness ==
    /\ Len(log) >= 3
    /\ rb_size = 128
    /\ log[1].op = "write" /\ log[1].arg.size = 40
    /\ ReadSucceeded(2)
    /\ log[2].out.payload = log[1].arg.data
    /\ log[3].op = "read" /\ log[3].ret = RING_BUFFER_ERROR_EMPTY

\* The k-th reservation has been published: its producer has stored the
\* header and the payload and stored commit_pos
Published(k) ==
    ~\E t \in Threads :
        loc[t].resv = k /\ pc[t] \in {"w_header", "w_data", "w_commit"}

\* C2: FIFO.  With one producer and one consumer, under any interleaving
\* of their steps, the payloads successful reads have returned are a
\* prefix of the payloads the producer's writes published, in the order
\* written: the i-th read returns the i-th frame written, from its
\* position, and the bytes behind the pointer it returns are the bytes
\* that were written.
C2_Fifo ==
    /\ Len(delivered) <= Len(reserved)
    /\ \A i \in 1..Len(delivered) :
          /\ Published(i)
          /\ delivered[i].payload = reserved[i].data
          /\ delivered[i].pos = reserved[i].pos

\* The positions of the n bytes that start at pos, around the end of the
\* region
Range(pos, n) == { (pos + i) % rb_size : i \in 0..(n - 1) }

\* The positions a reader may consume: the circular range from read_pos to
\* commit_pos
VisibleRange == Range(read_pos, AvailableRead(commit_pos, read_pos, rb_size))

\* The producer is between its reservation and the end of its payload
\* store: the stores of its frame have not all completed
Storing(t) == pc[t] \in {"w_header", "w_data"}

\* C3: Visibility follows reservation order.  A producer stores
\* commit_pos only when commit_pos equals the write_pos it reserved from,
\* and so of two frames the one reserved later is never published while
\* the one reserved earlier is not.
C3_VisibilityInReservationOrder ==
    [][ /\ \A t \in Threads :
              (pc[t] = "w_commit" /\ pc'[t] # "w_commit") =>
                  commit_pos = loc[t].write_pos
        /\ \A j, k \in 1..Len(reserved) :
              (j < k /\ Published(k)') => Published(j)' ]_vars

\* C4: commit_pos never covers a range that is not yet written.  No
\* position between read_pos and commit_pos lies in the frame of a
\* producer that has not completed its header and payload stores.
C4_CommitCoversWritten ==
    \A t \in Threads :
        Storing(t) => VisibleRange \cap Range(loc[t].write_pos, loc[t].msg_size) = { }

\* The (producer, seq) tag of a frame read: the first byte of the payload
\* the read validated
Tag(d) == d.checked[1]

\* The tag the writer gave the k-th frame reserved
WrittenTag(k) == reserved[k].data[1]

\* Every call has returned and a read would find nothing to consume
Drained == (\A t \in Threads : pc[t] = "idle") /\ commit_pos = read_pos

\* C5: Concurrent producers, one consumer.  No read returns Corrupted,
\* no tagged frame is returned twice, the frames of each producer are
\* returned in the order of their sequence numbers, and once every call
\* has returned and the arena is drained every frame written has been
\* returned.
C5_ExactlyOnceInOrder ==
    /\ \A t \in MPConsumers : ret[t] # RING_BUFFER_ERROR_CORRUPTED
    /\ \A i, j \in 1..Len(delivered) :
          i < j => /\ Tag(delivered[i]) # Tag(delivered[j])
                   /\ (Tag(delivered[i]) \div 16 = Tag(delivered[j]) \div 16
                         => Tag(delivered[i]) < Tag(delivered[j]))
    /\ \A i \in 1..Len(delivered) :
          \E k \in 1..Len(reserved) : Tag(delivered[i]) = WrittenTag(k)
    /\ Drained => \A k \in 1..Len(reserved) :
                      \E i \in 1..Len(delivered) : Tag(delivered[i]) = WrittenTag(k)

\* The frames consumed: those returned and those whose read has stored
\* read_pos and not yet returned
Consumed ==
    Len(delivered)
      + Cardinality({ t \in Threads : pc[t] \in {"r_count_msg", "r_count_bytes"} })

RECURSIVE FrameBytes(_, _)
\* The total size of the frames from the k-th to the last reserved
FrameBytes(k, last) ==
    IF k > last THEN 0 ELSE reserved[k].msg_size + FrameBytes(k + 1, last)

\* The last frame published, all frames before it being published too
RECURSIVE LastPublished(_)
LastPublished(k) ==
    IF k < Len(reserved) /\ Published(k + 1) THEN LastPublished(k + 1) ELSE k

\* C6: read_pos never passes commit_pos.  The circular distance from
\* read_pos to commit_pos is the total size of the frames committed and
\* not yet consumed, and no more frames are consumed than were committed.
C6_ReadBehindCommit ==
    /\ Consumed <= LastPublished(0)
    /\ AvailableRead(commit_pos, read_pos, rb_size)
         = FrameBytes(Consumed + 1, LastPublished(0))

\* C7: Multiple consumers.  Each frame is returned with Success to one
\* caller only: no two reads return the frame of the same tag, and none
\* returns a frame that was not written.
C7_DeliveredOnce ==
    /\ \A i, j \in 1..Len(delivered) :
          i # j => Tag(delivered[i]) # Tag(delivered[j])
    /\ \A i \in 1..Len(delivered) :
          \E k \in 1..Len(reserved) : Tag(delivered[i]) = WrittenTag(k)

\* The first k completed calls are write, read, write, read, ...
Alternating(k) ==
    /\ k <= Len(log)
    /\ \A i \in 1..k : log[i].op = (IF i % 2 = 1 THEN "write" ELSE "read")

\* C8: Wraparound.  While one thread alternates write(p) and read() with
\* payloads of one length, every write returns Success, every read
\* returns Success with the payload just written and its checksum, and
\* after k rounds messages_written = messages_read = k, wherever in the
\* region the frame lies.
C8_AlternationSucceeds ==
    \A k \in 1..Len(log) :
        Alternating(k) =>
            /\ log[k].ret = RING_BUFFER_SUCCESS
            /\ k % 2 = 0 =>
                  /\ log[k].out.payload = log[k - 1].arg.data
                  /\ HeaderChecksum(log[k].out.header)
                        = ring_buffer_crc32(log[k - 1].arg.data)
                  /\ log[k].post.stats.messages_written = k \div 2
                  /\ log[k].post.stats.messages_read = k \div 2

\* size is a non-zero power of two
PowerOfTwo(n) == n > 0 /\ BitAnd(n, n - 1) = 0

\* C9: Cursors in range.  After create and any interleaving of write,
\* read, get_stats and reset_stats calls, write_pos, commit_pos and
\* read_pos lie in 0..size-1, size is a non-zero power of two, and
\* ring_buffer_validate returns true.
C9_CursorsInRange ==
    /\ PowerOfTwo(rb_size)
    /\ write_pos \in 0..(rb_size - 1)
    /\ commit_pos \in 0..(rb_size - 1)
    /\ read_pos \in 0..(rb_size - 1)
    /\ ring_buffer_validate

\* A reservation has wrapped write_pos around the end of the region, the
\* reader has consumed a frame, and the statistics thread is in a call
C9_Witness ==
    /\ Len(reserved) = 2
    /\ reserved[2].pos + reserved[2].msg_size > rb_size
    /\ write_pos < read_pos
    /\ commit_pos = write_pos
    /\ Len(delivered) = 1
    /\ pc[3] \in {"gs_load", "rs_store"}

\* C10: Occupancy accounting.  For every pair of cursors in 0..size-1,
\* the used count of utilization is (write_pos - read_pos) mod size, it
\* and the free count of available_write add up to size - 1, free is not
\* negative and used / size lies in [0, 1).
C10_Occupancy ==
    \A i, j \in 1..Len(log) :
        (log[i].op = "utilization" /\ log[j].op = "available_write") =>
            /\ log[i].out.used = (write_pos - read_pos) % rb_size
            /\ log[i].out.used + log[j].out = rb_size - 1
            /\ log[j].out >= 0
            /\ log[i].out.used >= 0
            /\ log[i].out.used < log[i].out.size

\* Both functions have returned with write_pos behind read_pos, the arena
\* holding all but one byte it can hold
C10_Witness ==
    /\ Len(log) = 2
    /\ log[1].op = "utilization" /\ log[2].op = "available_write"
    /\ write_pos + 1 = read_pos
    /\ log[1].out.used = rb_size - 1
    /\ log[2].out = 0

\* C11: Every read that returns Success delivers a frame with the frame
\* magic, a length of at most RING_BUFFER_MAX_MESSAGE_SIZE, a checksum
\* equal to the CRC-32 of the payload bytes it returns, and data_size
\* equal to the length.
C11_DeliveredFramesValid ==
    \A i \in 1..Len(delivered) :
        /\ HeaderMagic(delivered[i].header) = U32Bytes(ARROW_IPC_MAGIC)
        /\ ~U32Greater(HeaderLength(delivered[i].header), RING_BUFFER_MAX_MESSAGE_SIZE)
        /\ HeaderChecksum(delivered[i].header) = ring_buffer_crc32(delivered[i].payload)
        /\ U32Bytes(delivered[i].data_size) = HeaderLength(delivered[i].header)

\* The last frame returned to thread t
RECURSIVE LastDelivered(_, _)
LastDelivered(t, i) ==
    IF i = 0 \/ delivered[i].tid = t THEN i ELSE LastDelivered(t, i - 1)

\* Consumer t (a thread that only reads) holds the view of its last
\* successful read and has made no call since
HoldsView(t) ==
    /\ pc[t] = "idle"
    /\ ret[t] = RING_BUFFER_SUCCESS
    /\ LastDelivered(t, Len(delivered)) > 0

\* C12: Borrow lifetime.  From the return of a successful read to the
\* consumer's next call, the arena bytes of the payload it borrowed are
\* the bytes the read validated: no producer has stored into them.
C12_BorrowedViewIntact ==
    \A t \in Threads \ {1} :
        HoldsView(t) =>
            LET d == delivered[LastDelivered(t, Len(delivered))]
            IN  CopyOut(buffer, d.data, d.data_size) = d.checked

\* The first k calls are writes, all successful but the k-th
FilledAt(k) ==
    /\ k <= Len(log)
    /\ \A i \in 1..k :
          /\ log[i].op = "write"
          /\ (log[i].ret = RING_BUFFER_SUCCESS) = (i < k)

\* The calls from the a-th to the b-th are reads
ReadsFrom(a, b) == b <= Len(log) /\ \A i \in a..b : log[i].op = "read"

\* After a fill that ended at the k-th call: the first rejection is Full
\* or Backpressure, the k - 1 reads that follow return the frames in the
\* order written, the next read returns Empty and the next write Success
DrainsAfter(k) ==
    /\ log[k].ret \in {RING_BUFFER_ERROR_FULL, RING_BUFFER_ERROR_BACKPRESSURE}
    /\ \A j \in 1..(k - 1) :
          ReadsFrom(k + 1, k + j) =>
              /\ log[k + j].ret = RING_BUFFER_SUCCESS
              /\ log[k + j].out.payload = log[j].arg.data
    /\ ReadsFrom(k + 1, 2 * k) => log[2 * k].ret = RING_BUFFER_ERROR_EMPTY
    /\ (ReadsFrom(k + 1, 2 * k) /\ Len(log) > 2 * k /\ log[2 * k + 1].op = "write")
          => log[2 * k + 1].ret = RING_BUFFER_SUCCESS

\* C13 as stated: Fill-to-full.  Writing frames of one size into a fresh
\* arena with no reads, at least one write succeeds whatever the size,
\* the first rejection is Full or Backpressure, the reads then return
\* the frames written, in order, then Empty, and a further write succeeds.
C13_FillToFull_AnySize ==
    \A k \in 1..Len(log) : FilledAt(k) => (k > 1 /\ DrainsAfter(k))

\* C13: Fill-to-full, for frames that fit a fresh arena (at most size - 1
\* bytes): at least one write succeeds, the first rejection is Full or
\* Backpressure, the reads then return the frames written, in order, then
\* Empty, and a further write of the same size succeeds.
C13_FillToFull ==
    \A k \in 1..Len(log) :
        (FilledAt(k) /\ FitsFreshArena(log[1].arg.size)) => (k > 1 /\ DrainsAfter(k))

\* Three frames filled the 128-byte arena, the fourth write met
\* backpressure, three reads drained it, the fourth found it empty and
\* the write after that succeeded
C13_Witness ==
    /\ Len(log) = 9
    /\ FilledAt(4)
    /\ log[4].ret = RING_BUFFER_ERROR_BACKPRESSURE
    /\ ReadsFrom(5, 8)
    /\ log[7].ret = RING_BUFFER_SUCCESS
    /\ log[8].ret = RING_BUFFER_ERROR_EMPTY
    /\ log[9].op = "write" /\ log[9].ret = RING_BUFFER_SUCCESS

\* The largest payload length, 16 MiB
MAX_PAYLOAD == 16 * 1024 * 1024

\* The completed call e is a write that passes the parameter, validation
\* and size checks
PassesChecks(e) ==
    /\ e.op = "write"
    /\ ~e.arg.rbnull
    /\ ~e.arg.isnull
    /\ e.arg.size > 0
    /\ e.arg.size <= MAX_PAYLOAD

\* used at the entry of the completed call e: (write_pos - read_pos) mod N
UsedAtEntry(e) == (e.pre.write_pos - e.pre.read_pos) % rb_size

\* The completed call e left the three cursors where they were
CursorsUnchanged(e) ==
    /\ e.post.write_pos = e.pre.write_pos
    /\ e.post.commit_pos = e.pre.commit_pos
    /\ e.post.read_pos = e.pre.read_pos

FrameSizeOf(n) == 8 * ((24 + n + 7) \div 8)

\* The free bytes at the entry of the completed call e:
\* (read_pos - write_pos - 1) mod N
FreeAtEntry(e) == (e.pre.read_pos - e.pre.write_pos - 1) % rb_size

\* The completed call e is a write below the backpressure threshold whose
\* frame exceeds the free bytes
OverFree(e) ==
    /\ PassesChecks(e)
    /\ 5 * UsedAtEntry(e) < 4 * rb_size
    /\ FrameSizeOf(e.arg.size) > FreeAtEntry(e)

\* C15: Full rejection.  A write whose frame exceeds the free bytes, at
\* utilization below 0.80, returns Full, adds 1 to write_errors and leaves
\* the three cursors, the arena bytes and messages_written unchanged; the
\* same write repeated with no read in between returns Full again.
C15_FullRejection ==
    \A i \in 1..Len(log) :
        LET e == log[i]
        IN  OverFree(e)
              => /\ e.ret = RING_BUFFER_ERROR_FULL
                 /\ e.post.stats.write_errors = e.pre.stats.write_errors + 1
                 /\ CursorsUnchanged(e)
                 /\ e.post.buffer = e.pre.buffer
                 /\ e.post.stats.messages_written = e.pre.stats.messages_written
                 /\ (i < Len(log) /\ log[i + 1].op = "write"
                       /\ log[i + 1].arg = e.arg)
                      => log[i + 1].ret = RING_BUFFER_ERROR_FULL

\* A 40-byte frame is in the 128-byte arena, and a 104-byte frame was
\* turned away twice with Full
C15_Witness ==
    /\ Len(log) = 3
    /\ log[1].op = "write" /\ log[1].ret = RING_BUFFER_SUCCESS
    /\ OverFree(log[2])
    /\ log[2].ret = RING_BUFFER_ERROR_FULL
    /\ log[3].op = "write" /\ log[3].arg = log[2].arg
    /\ log[3].ret = RING_BUFFER_ERROR_FULL
    /\ stats.write_errors = 2

\* C16: Oversize.  A write of more than 16 MiB to a valid arena returns
\* TooLarge, adds exactly 1 to write_errors and leaves messages_written,
\* bytes_written, the cursors and the backpressure flag unchanged; a write
\* of exactly 16 MiB is not answered with TooLarge.
C16_Oversize ==
    \A i \in 1..Len(log) :
        LET e == log[i]
        IN  (e.op = "write" /\ ~e.arg.rbnull /\ ~e.arg.isnull)
              => /\ e.arg.size > MAX_PAYLOAD
                      => /\ e.ret = RING_BUFFER_ERROR_TOO_LARGE
                         /\ e.post.stats.write_errors = e.pre.stats.write_errors + 1
                         /\ e.post.stats.messages_written
                              = e.pre.stats.messages_written
                         /\ e.post.stats.bytes_written = e.pre.stats.bytes_written
                         /\ CursorsUnchanged(e)
                         /\ e.post.backpressure = e.pre.backpressure
                 /\ e.arg.size = MAX_PAYLOAD
                      => e.ret # RING_BUFFER_ERROR_TOO_LARGE

\* With a frame in the arena and the backpressure flag set, a write of
\* 16 MiB + 1 bytes was answered with TooLarge and the flag stayed set
C16_Witness ==
    /\ Len(log) = 3
    /\ log[2].ret = RING_BUFFER_ERROR_BACKPRESSURE
    /\ log[3].op = "write" /\ ~log[3].arg.rbnull /\ ~log[3].arg.isnull
    /\ log[3].arg.size = MAX_PAYLOAD + 1
    /\ log[3].ret = RING_BUFFER_ERROR_TOO_LARGE
    /\ backpressure
    /\ write_pos > 0
    /\ stats.write_errors = 1

\* The completed call e is a write with a null arena, null data or
\* length 0, or a read with a null arena or a null output message
BadArguments(e) ==
    \/ e.op = "write" /\ (e.arg.rbnull \/ e.arg.isnull \/ e.arg.size = 0)
    \/ e.op = "read" /\ (e.arg.rbnull \/ e.arg.isnull)

\* C17: InvalidParam.  A write with a null arena, null data or length 0,
\* and a read with a null arena or a null output message, return
\* InvalidParam and change no cursor, no flag and none of the seven
\* counters.
C17_InvalidParam ==
    \A i \in 1..Len(log) :
        LET e == log[i]
        IN  BadArguments(e)
              => /\ e.ret = RING_BUFFER_ERROR_INVALID_PARAM
                 /\ CursorsUnchanged(e)
                 /\ e.post.is_full = e.pre.is_full
                 /\ e.post.backpressure = e.pre.backpressure
                 /\ e.post.stats = e.pre.stats

\* After a frame was written, a write with a null arena and a read with
\* a null output message both returned InvalidParam
C17_Witness ==
    /\ Len(log) = 3
    /\ log[1].op = "write" /\ log[1].ret = RING_BUFFER_SUCCESS
    /\ log[2].op = "write" /\ log[2].arg.rbnull
    /\ log[2].ret = RING_BUFFER_ERROR_INVALID_PARAM
    /\ log[3].op = "read" /\ log[3].arg.isnull
    /\ log[3].ret = RING_BUFFER_ERROR_INVALID_PARAM
    /\ stats.messages_written = 1
    /\ stats.read_errors = 0

\* The completed call e is a read with non-null arguments
ProperRead(e) == e.op = "read" /\ ~e.arg.rbnull /\ ~e.arg.isnull

\* The committed bytes at the entry of the completed call e:
\* (commit_pos - read_pos) mod N
CommittedAtEntry(e) == (e.pre.commit_pos - e.pre.read_pos) % rb_size

\* The 24 bytes at read_pos at the entry of the completed call e
HeaderAtEntry(e) == LoadHeader(e.pre.buffer, rb_size, e.pre.read_pos)

\* The header h has the magic and a length of at most 16 MiB
ValidHeader(h) ==
    /\ HeaderMagic(h) = U32Bytes(ARROW_IPC_MAGIC)
    /\ ~U32Greater(HeaderLength(h), MAX_PAYLOAD)

\* The completed read e found a valid header whose frame is longer than
\* the committed bytes
FrameIncomplete(e) ==
    /\ ProperRead(e)
    /\ CommittedAtEntry(e) >= 24
    /\ ValidHeader(HeaderAtEntry(e))
    /\ CommittedAtEntry(e) < FrameSizeOf(U32Value(HeaderLength(HeaderAtEntry(e))))

\* C18: Empty.  A read returns Empty when (commit_pos - read_pos) mod N is
\* below 24, and also when the header at read_pos is valid but fewer than
\* frame_size bytes are committed; in both cases the three cursors and all
\* counters, read_errors included, are unchanged.
C18_Empty ==
    \A i \in 1..Len(log) :
        LET e == log[i]
        IN  ((ProperRead(e) /\ CommittedAtEntry(e) < 24) \/ FrameIncomplete(e))
              => /\ e.ret = RING_BUFFER_ERROR_EMPTY
                 /\ CursorsUnchanged(e)
                 /\ e.post.stats = e.pre.stats

\* A 40-byte frame was written, the low byte of its length was
\* overwritten so that the header announces more than the 40 committed
\* bytes, and the read returned Empty
C18_Witness ==
    /\ Len(log) = 3
    /\ log[1].op = "write" /\ log[1].ret = RING_BUFFER_SUCCESS
    /\ log[2].op = "corrupt" /\ log[2].arg.off = 4
    /\ FrameIncomplete(log[3])
    /\ CommittedAtEntry(log[3]) = 40
    /\ log[3].ret = RING_BUFFER_ERROR_EMPTY

\* The n bytes that follow the header at read_pos at the entry of the
\* completed call e, taken around the end of the region
PayloadAtEntry(e, n) ==
    [k \in 1..n |-> e.pre.buffer[(e.pre.read_pos + 24 + k - 1) % rb_size]]

\* The completed read e found 24 committed bytes that do not carry the
\* magic or carry a length above 16 MiB
BadHeader(e) ==
    /\ ProperRead(e)
    /\ CommittedAtEntry(e) >= 24
    /\ ~ValidHeader(HeaderAtEntry(e))

\* The completed read e found a whole committed frame with a valid header
\* whose checksum is not the CRC32 of its payload
BadChecksum(e) ==
    /\ ProperRead(e)
    /\ CommittedAtEntry(e) >= 24
    /\ ValidHeader(HeaderAtEntry(e))
    /\ LET n == U32Value(HeaderLength(HeaderAtEntry(e)))
       IN  /\ CommittedAtEntry(e) >= FrameSizeOf(n)
           /\ HeaderChecksum(HeaderAtEntry(e))
                # ring_buffer_crc32(PayloadAtEntry(e, n))

\* C19: Corrupted read.  When the committed header at read_pos has a wrong
\* magic or a length above 16 MiB, or the committed frame has a checksum
\* that is not the CRC32 of its payload, the read returns Corrupted, adds
\* exactly 1 to read_errors and leaves read_pos, commit_pos, write_pos,
\* messages_read and bytes_read unchanged.
C19_CorruptedRead ==
    \A i \in 1..Len(log) :
        LET e == log[i]
        IN  (BadHeader(e) \/ BadChecksum(e))
              => /\ e.ret = RING_BUFFER_ERROR_CORRUPTED
                 /\ e.post.stats.read_errors = e.pre.stats.read_errors + 1
                 /\ CursorsUnchanged(e)
                 /\ e.post.stats.messages_read = e.pre.stats.messages_read
                 /\ e.post.stats.bytes_read = e.pre.stats.bytes_read

\* A frame was written, a byte of its payload was overwritten, and the
\* read found the checksum wrong and returned Corrupted
C19_Witness ==
    /\ Len(log) = 3
    /\ log[1].op = "write" /\ log[1].ret = RING_BUFFER_SUCCESS
    /\ log[2].op = "corrupt" /\ log[2].arg.off = 24
    /\ BadChecksum(log[3])
    /\ log[3].ret = RING_BUFFER_ERROR_CORRUPTED
    /\ stats.read_errors = 1
    /\ read_pos = 0

\* Every thread has returned from its call
Quiescent == \A t \in Threads : pc[t] = "idle"

RECURSIVE PayloadBytesWritten(_)
\* The sum of the payload lengths of the first k writes that reserved a
\* frame; a write returns Success exactly when it has reserved one
PayloadBytesWritten(k) ==
    IF k = 0 THEN 0 ELSE PayloadBytesWritten(k - 1) + Len(reserved[k].data)

RECURSIVE HeaderBytesRead(_)
\* The sum of header.length over the first k reads that returned Success
HeaderBytesRead(k) ==
    IF k = 0
    THEN 0
    ELSE HeaderBytesRead(k - 1) + U32Value(HeaderLength(delivered[k].header))

\* C20: Counter accuracy under concurrency.  Once all threads have
\* returned, with no reset_stats in between, messages_written is the
\* number of writes that returned Success and bytes_written the sum of
\* their payload lengths; messages_read is the number of reads that
\* returned Success and bytes_read the sum of their header.length.
C20_CountersAtQuiescence ==
    Quiescent
      => /\ stats.messages_written = Len(reserved)
         /\ stats.bytes_written = PayloadBytesWritten(Len(reserved))
         /\ stats.messages_read = Len(delivered)
         /\ stats.bytes_read = HeaderBytesRead(Len(delivered))

\* Two consumers read at the same time and both returned Success with the
\* frame at the same position, while two writes had succeeded; all four
\* threads' calls are over
C20_Witness ==
    /\ Quiescent
    /\ Len(reserved) = 2
    /\ Len(delivered) = 2
    /\ delivered[1].tid # delivered[2].tid
    /\ delivered[1].pos = delivered[2].pos
    /\ stats.messages_read = 2
    /\ stats.bytes_written > 0

\* Going from the cursor value from to the value to, in the circular
\* order, does not pass limit
NotPast(from, to, limit) ==
    (to - from) % rb_size <= (limit - from) % rb_size

MustRetry(t) == pc[t] = "w_cas" /\ write_pos # loc[t].write_pos

\* C22: No operation blocks.  A compare-exchange that has to fail does so
\* because another producer reserved from the value loaded; and under
\* fair scheduling, with a compare-exchange that does not fail spuriously
\* for ever, the writes and reads in flight all return.
C22_CallsReturn ==
    /\ [](\A t \in Producers :
            MustRetry(t)
              => \E k \in 1..Len(reserved) :
                     reserved[k].tid # t /\ reserved[k].pos = loc[t].write_pos)
    /\ (\E t \in Threads : pc[t] # "idle") ~> (\A t \in Threads : pc[t] = "idle")

\* A producer whose compare-exchange failed because the other producer
\* had reserved is past its second compare-exchange, which succeeded, and
\* about to return
C22_Witness ==
    \E t \in Producers :
        /\ pc[t] = "w_count_bytes"
        /\ loc[t].i = 1
        /\ Len(reserved) = 2
        /\ reserved[1].tid # t
        /\ reserved[2].tid = t
        /\ reserved[2].pos = reserved[1].msg_size

\* a >= b for two size_t values held as bit sets
U64AtLeast(a, b) ==
    a = b \/ \E h \in a \ b : \A c \in b \ a : c < h

\* C23: Capacity rounding.  create(k) for k >= 1 yields an arena whose
\* capacity is the smallest power of two that is at least k (1023 ->
\* 1024, 1025 -> 2048, a power of two maps to itself), create(0) yields
\* 64 MiB, and the new descriptor has cursors, flags and counters 0 and
\* the descriptor magic.
C23_CapacityRounding ==
    \A i \in 1..Len(log) :
        LET k == log[i].arg.size
            d == log[i].out
        IN  (log[i].op = "create" /\ log[i].ret = "created")
              => /\ k # {} => /\ \E e \in 0..63 : d.size = {e}
                              /\ U64AtLeast(d.size, k)
                              /\ \A e \in 0..63 :
                                     U64AtLeast({e}, k) => U64AtLeast({e}, d.size)
                 /\ k = U64Bits(1023) => d.size = {10}
                 /\ k = U64Bits(1025) => d.size = {11}
                 /\ k = {} => d.size = {26}
                 /\ d.write_pos = 0 /\ d.read_pos = 0 /\ d.commit_pos = 0
                 /\ d.is_full = FALSE /\ d.backpressure = FALSE
                 /\ \A f \in DOMAIN d.stats : d.stats[f] = 0
                 /\ DOMAIN d.stats
                      = { "messages_written", "messages_read", "bytes_written",
                          "bytes_read", "write_errors", "read_errors",
                          "backpressure_events" }
                 /\ d.magic = 1380075090

\* C24: Idempotent stats snapshot.  get_stats changes no cursor, flag or
\* counter, and two get_stats calls in a row, with no write, read or
\* reset_stats between them, return the same values in all seven fields.
C24_StatsSnapshotIdempotent ==
    \A i \in 1..Len(log) :
        LET e == log[i]
        IN  e.op = "get_stats"
              => /\ CursorsUnchanged(e)
                 /\ e.post.is_full = e.pre.is_full
                 /\ e.post.backpressure = e.pre.backpressure
                 /\ e.post.stats = e.pre.stats
                 /\ DOMAIN e.out
                      = { "messages_written", "messages_read", "bytes_written",
                          "bytes_read", "write_errors", "read_errors",
                          "backpressure_events" }
                 /\ (i < Len(log) /\ log[i + 1].op = "get_stats")
                      => log[i + 1].out = e.out

\* After a write and a read that succeeded, two snapshots in a row both
\* show one message written and one read
C24_Witness ==
    /\ Len(log) = 4
    /\ log[1].op = "write" /\ log[1].ret = RING_BUFFER_SUCCESS
    /\ log[2].op = "read" /\ log[2].ret = RING_BUFFER_SUCCESS
    /\ log[3].op = "get_stats"
    /\ log[4].op = "get_stats"
    /\ log[4].out = log[3].out
    /\ log[4].out.messages_written = 1
    /\ log[4].out.messages_read = 1


\* The conditions that make a descriptor invalid, on the snapshot s taken
\* at the entry of a call
InvalidDescriptor(s) ==
    \/ s.magic # RING_BUFFER_MAGIC
    \/ s.ptr \in {"NULL", "MAP_FAILED"}
    \/ s.size = 0
    \/ ~(\E k \in 0..30 : s.size = 2 ^ k)
    \/ s.write_pos >= s.size
    \/ s.read_pos >= s.size
    \/ s.commit_pos >= s.size

\* C25: Validate before touch.  When the descriptor is invalid (magic wrong,
\* backing pointer null or MAP_FAILED, capacity zero or not a power of two,
\* or any cursor >= N), write and read return Corrupted without changing
\* any cursor or any arena byte; validate returns true exactly when none of
\* these conditions holds.
C25_ValidateBeforeTouch ==
    \A i \in 1..Len(log) :
        LET e == log[i]
        IN  /\ (e.op \in {"write", "read"} /\ ~BadArguments(e)
                  /\ InvalidDescriptor(e.pre))
              => /\ e.ret = RING_BUFFER_ERROR_CORRUPTED
                 /\ CursorsUnchanged(e)
                 /\ e.post.buffer = e.pre.buffer
            /\ (e.op = "validate" /\ ~e.arg.rbnull /\ ~e.pre.freed)
              => (e.ret = "true" <=> ~InvalidDescriptor(e.pre))

\* The capacity is overwritten with 24; the write that follows returns
\* Corrupted and validate answers false
C25_Witness ==
    /\ Len(log) = 3
    /\ log[1].op = "store" /\ log[1].arg.field = "size" /\ log[1].arg.value = 24
    /\ log[2].op = "write" /\ log[2].ret = RING_BUFFER_ERROR_CORRUPTED
    /\ log[3].op = "validate" /\ ~log[3].arg.rbnull /\ log[3].ret = "false"


\* C26: Destroy invalidates the descriptor.  ring_buffer_destroy on a
\* descriptor leaves its magic different from RING_BUFFER_MAGIC when the
\* descriptor is freed, so that validate on the destroyed descriptor answers
\* false; ring_buffer_destroy(NULL) changes nothing.
C26_DestroyInvalidates ==
    \A i \in 1..Len(log) :
        LET e == log[i]
        IN  /\ (e.op = "destroy" /\ ~e.arg.rbnull)
              => (e.post.freed /\ e.post.magic # RING_BUFFER_MAGIC)
            /\ (e.op = "destroy" /\ e.arg.rbnull) => e.post = e.pre
            /\ (e.op = "validate" /\ ~e.arg.rbnull /\ e.pre.freed)
              => e.ret = "false"


\* C27: Reservation never overruns unread data.  Whenever the
\* compare-exchange of a write succeeds on write_pos, the frame fits the
\* free space counted from the value it replaced:
\* msg_size <= (read_pos - write_pos - 1) mod N, for any interleaving of
\* concurrent producers.
C27_ReservationFits ==
    [][\A t \in Threads :
          (pc[t] = "w_cas" /\ pc'[t] = "w_header")
            => loc[t].msg_size <= (read_pos - write_pos - 1) % rb_size]_vars


\* C28: Quiescent visibility.  Once every write call that reserved space has
\* returned and no write is in flight, commit_pos = write_pos, whatever the
\* order in which concurrent producers finished.
C28_QuiescentVisibility ==
    (\A t \in Threads : loc[t].op # "write") => commit_pos = write_pos


\* The completed read e found at read_pos a whole committed frame with a
\* valid header and the checksum of its payload
IntactFrame(e) ==
    /\ ProperRead(e)
    /\ CommittedAtEntry(e) >= 24
    /\ ValidHeader(HeaderAtEntry(e))
    /\ LET n == U32Value(HeaderLength(HeaderAtEntry(e)))
       IN  /\ CommittedAtEntry(e) >= FrameSizeOf(n)
           /\ HeaderChecksum(HeaderAtEntry(e))
                = ring_buffer_crc32(PayloadAtEntry(e, n))

\* The payload of n bytes of the frame at pos crosses the end of the
\* region: data_start + n > N with data_start = (pos + 24) mod N
Straddles(pos, n) == ((pos + 24) % rb_size) + n > rb_size

C30_StalledReader ==
    [][/\ (loc[3].op = "read" /\ pc'[3] = "idle" /\ pc[3] # "idle"
             /\ ret[3] = RING_BUFFER_ERROR_CORRUPTED)
           => /\ ret'[3] = RING_BUFFER_ERROR_CORRUPTED
              /\ read_pos' = read_pos
              /\ delivered' = delivered
       /\ \A t \in Threads :
            (loc[t].op = "write" /\ pc'[t] = "idle" /\ pc[t] # "idle")
              => ret'[t] \in { RING_BUFFER_SUCCESS, RING_BUFFER_ERROR_FULL,
                               RING_BUFFER_ERROR_BACKPRESSURE }
       /\ ring_buffer_validate']_vars


\* C31: Backpressure flag staleness.  Only a write that passes the
\* parameter, validation and size checks stores the backpressure flag: true
\* when it finds utilization >= 0.80, false otherwise.  No other call
\* changes it, and is_backpressure returns it as it is, so it stays true
\* after reads have drained the arena until the next such write.
C31_FlagStaleness ==
    \A i \in 1..Len(log) :
        LET e == log[i]
        IN  /\ (PassesChecks(e) /\ ~InvalidDescriptor(e.pre))
              => (e.post.backpressure <=> 5 * UsedAtEntry(e) >= 4 * rb_size)
            /\ ~(PassesChecks(e) /\ ~InvalidDescriptor(e.pre))
              => e.post.backpressure = e.pre.backpressure
            /\ e.op = "is_backpressure"
              => (e.ret = "true" <=> e.pre.backpressure)

\* A frame of 104 bytes is written, the next write is rejected with
\* Backpressure, the read drains the arena, and is_backpressure still
\* answers true
C31_Witness ==
    /\ Len(log) = 4
    /\ log[1].op = "write" /\ log[1].ret = RING_BUFFER_SUCCESS
    /\ log[2].op = "write" /\ log[2].ret = RING_BUFFER_ERROR_BACKPRESSURE
    /\ log[3].op = "read" /\ log[3].ret = RING_BUFFER_SUCCESS
    /\ log[3].post.read_pos = log[3].post.write_pos
    /\ log[4].op = "is_backpressure" /\ log[4].ret = "true"


\* C32: Frame alignment.  Every successful write advances write_pos and
\* commit_pos by align8(24 + length) mod N and every successful read
\* advances read_pos by the same amount, so write_pos, commit_pos and
\* read_pos are multiples of 8 in every reachable state.
C32_FrameAlignment ==
    [][/\ \A t \in Threads :
            /\ (pc[t] = "w_cas" /\ pc'[t] = "w_header")
                 => write_pos'
                      = (write_pos + FrameSizeOf(loc[t].arg.size)) % rb_size
            /\ (pc[t] = "w_commit" /\ pc'[t] # "w_commit")
                 => commit_pos'
                      = (commit_pos + FrameSizeOf(loc[t].arg.size)) % rb_size
            /\ (pc[t] = "r_store" /\ pc'[t] # "r_store")
                 => read_pos'
                      = (read_pos + FrameSizeOf(loc[t].size)) % rb_size
       /\ write_pos' % 8 = 0
       /\ commit_pos' % 8 = 0
       /\ read_pos' % 8 = 0]_vars


\* The frame of the write in flight of thread t lies in the region: its
\* header at the reserved position and its payload after it, around the end
FrameStored(t) ==
    /\ LoadHeader(buffer, rb_size, loc[t].write_pos) = loc[t].header
    /\ \A k \in 1..loc[t].arg.size :
         buffer[(loc[t].write_pos + 24 + k - 1) % rb_size] = loc[t].arg.data[k]

\* C33: Single-producer write ordering.  Within a write the compare-exchange
\* comes first, then the header and payload stores, then the store of
\* commit_pos = new_write, then the increments of messages_written and
\* bytes_written.  With one producer, commit_pos differs from write_pos
\* only between the compare-exchange and the commit store, and the two are
\* equal whenever no write is in flight.
C33_WriteOrdering ==
    [][/\ commit_pos' # write_pos'
            => pc'[1] \in {"w_header", "w_data", "w_commit"}
       /\ write_pos' # write_pos => pc[1] = "w_cas"
       /\ buffer' # buffer
            => (pc[1] \in {"w_header", "w_data"} /\ commit_pos = loc[1].write_pos
                  /\ write_pos = loc[1].new_write_pos)
       /\ commit_pos' # commit_pos
            => (pc[1] = "w_commit" /\ FrameStored(1)
                  /\ commit_pos' = loc[1].new_write_pos
                  /\ stats' = stats)
       /\ stats'.messages_written # stats.messages_written
            => (pc[1] = "w_count_msg" /\ commit_pos = loc[1].new_write_pos)
       /\ stats'.bytes_written # stats.bytes_written
            => (pc[1] = "w_count_bytes"
                  /\ stats.messages_written = Len(reserved))]_vars

\* The second frame of 40 bytes is stored and about to be published:
\* write_pos is 80 and commit_pos still 40
C33_Witness ==
    /\ pc[1] = "w_commit"
    /\ FrameStored(1)
    /\ write_pos = 80
    /\ commit_pos = 40


\* The value the checks of a write give in the order InvalidParam,
\* Corrupted, TooLarge, Backpressure, Full, for the completed call e
FirstFailedCheck(e) ==
    IF BadArguments(e) THEN RING_BUFFER_ERROR_INVALID_PARAM
    ELSE IF InvalidDescriptor(e.pre) THEN RING_BUFFER_ERROR_CORRUPTED
    ELSE IF e.arg.size > MAX_PAYLOAD THEN RING_BUFFER_ERROR_TOO_LARGE
    ELSE IF 5 * UsedAtEntry(e) >= 4 * rb_size THEN RING_BUFFER_ERROR_BACKPRESSURE
    ELSE IF FrameSizeOf(e.arg.size) > FreeAtEntry(e) THEN RING_BUFFER_ERROR_FULL
    ELSE RING_BUFFER_SUCCESS

C35_OccupancyBound ==
    LET used == (write_pos - read_pos) % rb_size
    IN  /\ used = FrameBytes(Consumed + 1, Len(reserved))
        /\ used <= rb_size - 1
        /\ write_pos = read_pos <=> Consumed = Len(reserved)
        /\ \A k \in 1..Len(reserved) : reserved[k].msg_size < rb_size
        /\ \A t \in Threads :
             (pc[t] \in {"w_load", "w_cas"}) => loc[t].msg_size < rb_size

\* The first write, of a frame of 64 bytes, was rejected with Full on the
\* empty arena of 64 bytes; the second stored a frame of 56 bytes, which is
\* unread
C35_Witness ==
    /\ \A t \in Threads : pc[t] = "idle"
    /\ ncalls[1] = 2 /\ ncalls[2] = 0
    /\ stats.write_errors = 1
    /\ Len(reserved) = 1 /\ reserved[1].msg_size = 56
    /\ write_pos = 56 /\ read_pos = 0


\* C36: Quiescent counter consistency.  With one producer and one
\* consumer and no reset_stats, whenever no call is in flight,
\* messages_written - messages_read is the number of committed frames not
\* yet consumed and bytes_written - bytes_read is the sum of their payload
\* lengths, so neither read-side counter exceeds its write-side one.
C36_QuiescentCounters ==
    Quiescent =>
        /\ commit_pos = write_pos
        /\ stats.messages_written - stats.messages_read
             = Len(reserved) - Len(delivered)
        /\ stats.bytes_written - stats.bytes_read
             = PayloadBytesWritten(Len(reserved))
                 - PayloadBytesWritten(Len(delivered))
        /\ stats.messages_read <= stats.messages_written
        /\ stats.bytes_read <= stats.bytes_written

\* Three frames written, the first of them read, two frames of 9 and 1
\* payload bytes left unread
C36_Witness ==
    /\ Quiescent
    /\ stats.messages_written = 3 /\ stats.messages_read = 1
    /\ stats.bytes_written = 19 /\ stats.bytes_read = 9
    /\ Len(reserved) = 3 /\ Len(delivered) = 1


\* The counters ring_buffer_write updates
WriteSideCounters(s) ==
    << s.stats.messages_written, s.stats.bytes_written,
       s.stats.write_errors, s.stats.backpressure_events >>

\* The counters ring_buffer_read updates
ReadSideCounters(s) ==
    << s.stats.messages_read, s.stats.bytes_read, s.stats.read_errors >>

\* The state of the descriptor and the arena that a snapshot records
StateOf(s) ==
    << s.write_pos, s.read_pos, s.commit_pos, s.is_full, s.backpressure,
       s.stats, s.buffer, s.size, s.magic, s.ptr, s.freed >>

\* C37: Frame effects.  A read never changes write_pos, commit_pos, the
\* backpressure flag, the arena bytes or a write-side counter; a write
\* never changes read_pos or a read-side counter; utilization,
\* available_write, available_read, is_backpressure, validate and
\* get_stats change no state at all.
C37_FrameEffects ==
    \A i \in 1..Len(log) :
        LET e == log[i]
        IN  /\ e.op = "read"
              => /\ e.post.write_pos = e.pre.write_pos
                 /\ e.post.commit_pos = e.pre.commit_pos
                 /\ e.post.backpressure = e.pre.backpressure
                 /\ e.post.buffer = e.pre.buffer
                 /\ WriteSideCounters(e.post) = WriteSideCounters(e.pre)
            /\ e.op = "write"
              => /\ e.post.read_pos = e.pre.read_pos
                 /\ ReadSideCounters(e.post) = ReadSideCounters(e.pre)
            /\ e.op \in { "utilization", "available_write", "available_read",
                          "is_backpressure", "validate", "get_stats" }
              => StateOf(e.post) = StateOf(e.pre)

\* A successful write, the read that returns its frame, a read that finds
\* the arena empty, then a query
C37_Witness ==
    /\ Len(log) = 4
    /\ log[1].op = "write" /\ log[1].ret = RING_BUFFER_SUCCESS
    /\ log[1].post.write_pos # log[1].pre.write_pos
    /\ log[2].op = "read" /\ log[2].ret = RING_BUFFER_SUCCESS
    /\ log[2].pre.backpressure = FALSE
    /\ log[2].post.read_pos # log[2].pre.read_pos
    /\ log[3].op = "read" /\ log[3].ret = RING_BUFFER_ERROR_EMPTY
    /\ log[4].op \in { "utilization", "available_read" }


\* All seven counters of a statistics record are 0
AllZero(st) == \A j \in 1..Len(StatFields) : st[StatFields[j]] = 0

\* The number of reads among the first i completed calls that returned
\* Success
ReadsBefore(i) == Cardinality({ j \in 1..i : ReadSucceeded(j) })

BytesAt(b, pos, n) == [i \in 1..n |-> b[(pos + i - 1) % rb_size]]

\* C39: Writes stay inside the reservation.  A write that returns Success
\* stores the 24 header bytes and then the payload at the circular
\* positions write_pos .. write_pos + 24 + length - 1 (mod N), in two
\* segments when the range passes index N - 1; it stores no byte outside
\* that range and none at an index >= N, and the header it stores has
\* magic 0x41524157, the payload length, CRC32(payload) and reserved 0.
\* A write that returns anything else stores nothing.  Stated of the call
\* completed last: every completed call is the last one in the state it
\* returns to, and its record does not change afterwards.
C39_WritesInsideReservation ==
    \A i \in { Len(log) } \ {0} :
        LET e == log[i]
            pos == e.pre.write_pos
            h == BytesAt(e.post.buffer, pos, 24)
        IN  e.op = "write"
              => /\ DOMAIN e.post.buffer = 0..(rb_size - 1)
                 /\ IF e.ret = RING_BUFFER_SUCCESS
                    THEN /\ pos < rb_size
                         /\ 24 + e.arg.size <= rb_size - 1
                         /\ HeaderMagic(h) = U32Bytes(1095909719)
                         /\ HeaderLength(h) = U32Bytes(e.arg.size)
                         /\ HeaderChecksum(h) = ring_buffer_crc32(e.arg.data)
                         /\ HeaderReserved(h) = << 0, 0, 0, 0 >>
                         /\ BytesAt(e.post.buffer, pos + 24, e.arg.size)
                              = e.arg.data
                         /\ \A k \in 0..(rb_size - 1) :
                              k \notin Range(pos, 24 + e.arg.size)
                                => e.post.buffer[k] = e.pre.buffer[k]
                    ELSE e.post.buffer = e.pre.buffer

\* One write has stored its header in two segments and another its
\* payload in two segments
C39_Witness ==
    /\ \E i \in 1..Len(log) :
         /\ log[i].op = "write" /\ log[i].ret = RING_BUFFER_SUCCESS
         /\ log[i].pre.write_pos + 24 > rb_size
    /\ \E j \in 1..Len(log) :
         /\ log[j].op = "write" /\ log[j].ret = RING_BUFFER_SUCCESS
         /\ Straddles(log[j].pre.write_pos, log[j].arg.size)


\* 2n for a size_t n held as a bit set, without the wrap at 64 bits
U64Twice(n) == { b + 1 : b \in n }

\* C40: next_power_of_2.  The function returns 1 for 0; for 1 <= n <= 2^63
\* it returns the smallest power of two p >= n, so that p < 2n and the
\* function maps p to itself; for n > 2^63 the 64-bit computation wraps
\* and the result is 0, which is not a power of two.
C40_NextPowerOf2 ==
    \A i \in 1..Len(log) :
        LET n == log[i].arg.n
            p == log[i].out
        IN  log[i].op = "next_power_of_2"
              => /\ n = {} => p = {0}
                 /\ (n # {} /\ U64AtLeast({63}, n))
                      => /\ \E e \in 0..63 : p = {e}
                         /\ U64AtLeast(p, n)
                         /\ \A e \in 0..63 :
                              U64AtLeast({e}, n) => U64AtLeast({e}, p)
                         /\ ~U64AtLeast(p, U64Twice(n))
                         /\ next_power_of_2_u64(p) = p
                 /\ ~U64AtLeast({63}, n)
                      => /\ p = {}
                         /\ ~\E e \in 0..63 : p = {e}

\* 2^62 + 1 is rounded to 2^63
C40_Witness ==
    /\ Len(log) = 1
    /\ log[1].op = "next_power_of_2"
    /\ log[1].arg.n = {0, 62}
    /\ log[1].out = {63}

=============================================================================
